---- MODULE Spec2Model ----
(***************************************************************************)
(* Franchise / site / user / service / client model of the appagenda       *)
(* backend (Backend/app/admin/routes_franquicias.py, routes_servicios.py,  *)
(* clients_service/routes_clientes.py).                                    *)
(*                                                                         *)
(* Identifiers are integers: franchise ids are 1..MaxFranquicias, site ids *)
(* are 101.., NULL (0) stands for Python None and for an absent document   *)
(* field, which every reader in the source treats alike (dict.get, and the *)
(* Mongo equality filter {campo: None}).                                   *)
(***************************************************************************)
EXTENDS Integers, Sequences, FiniteSets, TLC

\* ------------------------------------------------------------------ bounds
MaxFranquicias == 2
NumSedes == 2
MaxServicios == 2
MaxClientes == 2

\* None / absent field
NULL == 0

FranqIds == 1..MaxFranquicias
\* sites present in collection_locales
SedeIds == {100 + i : i \in 1..NumSedes}
\* a site id that is in no document of collection_locales
SedeInexistente == 199
SedeInputs == SedeIds \cup {SedeInexistente}

Roles == {"super_admin", "admin_franquicia", "admin_sede", "estilista"}

VARIABLES
    franquicias,    \* collection_franquicia: franquicia_id -> [sedes: Seq(sede_id)]
    next_franq,     \* last identifier handed out by generar_id("franquicia")
    locales,        \* collection_locales: sede_id -> [franquicia_id]
    usuarios,       \* collection_auth: user -> [rol, sede_id, franquicia_id]
    servicios,      \* collection_servicios: Seq of service documents
    clientes,       \* collection_clients: Seq of client documents
    ventas,         \* collection_sales: Seq of sale documents
    llamadas,       \* the calls of the propagator in flight, one per slot, each
                    \* with its arguments and the store operation it is at
    resp,           \* the response of the last handler that ran
    prev            \* the collections as they were before that handler ran

vars == <<franquicias, next_franq, locales, usuarios, servicios, clientes, ventas,
          llamadas, resp, prev>>

\* what a snapshot keeps of the response that preceded it: the call and its
\* arguments when it was a successful asignar_sede
Resumen(r) ==
    IF r.op = "asignar_sede" /\ r.status = 200
    THEN [op |-> r.op, f |-> r.f, s |-> r.s]
    ELSE [op |-> "otra"]

\* the five collections, and the call that produced them, as a snapshot
Colecciones ==
    [franquicias |-> franquicias, locales |-> locales, usuarios |-> usuarios,
     servicios |-> servicios, clientes |-> clientes, resp |-> Resumen(resp)]

\* the documents of a snapshot, without the response
Docs(c) ==
    [franquicias |-> c.franquicias, locales |-> c.locales, usuarios |-> c.usuarios,
     servicios |-> c.servicios, clientes |-> c.clientes]

\* ------------------------------------------------------------ store helpers
Range(s) == {s[i] : i \in 1..Len(s)}

\* $push in place of $addToSet
AddToSet_Push(arr, x) == Append(arr, x)

\* Mongo $addToSet on an array field
AddToSet(arr, x) == IF x \in Range(arr) THEN arr ELSE Append(arr, x)

\* Mongo $pull on an array field: removes every occurrence
Pull(arr, x) == SelectSeq(arr, LAMBDA y : y # x)

\* update_many with an empty filter
UpdateManyUsuarios_SinFiltro(us, s, f) ==
    [u \in DOMAIN us |-> [us[u] EXCEPT !.franquicia_id = f]]

\* collection_auth.update_many({"sede_id": s}, {"$set": {"franquicia_id": f}})
\* ($unset is the same with f = NULL)
UpdateManyUsuarios(us, s, f) ==
    [u \in DOMAIN us |->
        IF us[u].sede_id = s THEN [us[u] EXCEPT !.franquicia_id = f] ELSE us[u]]

\* an update of the site that leaves a tag already set as it is
UpdateLocal_SiVacio(ls, s, f) ==
    [l \in DOMAIN ls |->
        IF l = s /\ ls[l].franquicia_id = NULL
        THEN [ls[l] EXCEPT !.franquicia_id = f] ELSE ls[l]]

\* collection_locales.update_one({"sede_id": s}, {"$set": {"franquicia_id": f}})
UpdateLocal(ls, s, f) ==
    [l \in DOMAIN ls |-> IF l = s THEN [ls[l] EXCEPT !.franquicia_id = f] ELSE ls[l]]

\* collection_franquicia.delete_one({"franquicia_id": f})
DeleteFranquicia(fs, f) == [g \in (DOMAIN fs) \ {f} |-> fs[g]]

\* the staff accounts of collection_auth: two on the first site, one on the
\* second, one without site binding
UsuariosIniciales ==
    [u \in 1..4 |->
        CASE u = 1 -> [rol |-> "admin_sede", sede_id |-> 101, franquicia_id |-> NULL]
          [] u = 2 -> [rol |-> "estilista",  sede_id |-> 101, franquicia_id |-> NULL]
          [] u = 3 -> [rol |-> "admin_sede", sede_id |-> 102, franquicia_id |-> NULL]
          [] OTHER -> [rol |-> "admin_sede", sede_id |-> NULL, franquicia_id |-> NULL]]

RespInicial == [op |-> "init", status |-> 200]

\* the requests that run at the same time, and a slot without a request
Slots == {"a", "b"}
LlamadaLibre ==
    [op |-> "ninguna", f |-> NULL, s |-> NULL, pc |-> "libre", status |-> 0,
     fallo_en |-> "", reintento |-> FALSE]

Init ==
    /\ franquicias = <<>>
    /\ next_franq = 0
    /\ locales = [s \in SedeIds |-> [franquicia_id |-> NULL]]
    /\ usuarios = UsuariosIniciales
    /\ servicios = <<>>
    /\ clientes = <<>>
    /\ ventas = <<>>
    /\ llamadas = [p \in Slots |-> LlamadaLibre]
    /\ resp = RespInicial
    /\ prev = [franquicias |-> <<>>,
               locales |-> [s \in SedeIds |-> [franquicia_id |-> NULL]],
               usuarios |-> UsuariosIniciales,
               servicios |-> <<>>, clientes |-> <<>>, resp |-> [op |-> "otra"]]

\* --------------------------------------------------------- routes_franquicias
\* generar_id("franquicia"): the next identifier, never handed out before
generar_id_franquicia == next_franq + 1

\* POST /franquicias
crear_franquicia(rol) ==
    /\ next_franq < MaxFranquicias
    /\ prev' = Colecciones
    /\ IF rol # "super_admin"
       THEN /\ resp' = [op |-> "crear_franquicia", status |-> 403, rol |-> rol]
            /\ UNCHANGED <<franquicias, next_franq>>
       ELSE /\ next_franq' = generar_id_franquicia
            /\ franquicias' =
                 [f \in (DOMAIN franquicias) \cup {generar_id_franquicia} |->
                     IF f = generar_id_franquicia
                     THEN [sedes |-> <<>>]
                     ELSE franquicias[f]]
            /\ resp' = [op |-> "crear_franquicia", status |-> 200, rol |-> rol,
                        f |-> generar_id_franquicia]
    /\ UNCHANGED <<locales, usuarios, servicios, clientes, ventas, llamadas>>

\* the deletion without the check of the site list
EliminarStatus_SinSedes(rol, f) ==
    IF rol # "super_admin" THEN 403
    ELSE IF f \notin DOMAIN franquicias THEN 404
    ELSE 200

\* status of DELETE /franquicias/{f}
EliminarStatus(rol, f) ==
    IF rol # "super_admin" THEN 403
    ELSE IF f \notin DOMAIN franquicias THEN 404
    ELSE IF Len(franquicias[f].sedes) > 0 THEN 400
    ELSE 200

eliminar_franquicia(rol, f) ==
    /\ prev' = Colecciones
    /\ resp' = [op |-> "eliminar_franquicia", status |-> EliminarStatus(rol, f),
                rol |-> rol, f |-> f]
    /\ franquicias' = IF EliminarStatus(rol, f) = 200
                      THEN DeleteFranquicia(franquicias, f)
                      ELSE franquicias
    /\ UNCHANGED <<next_franq, locales, usuarios, servicios, clientes, ventas, llamadas>>

\* the assignment without the check of the site's current franchise
AsignarStatus_SinConflicto(rol, f, s) ==
    IF rol # "super_admin" THEN 403
    ELSE IF f \notin DOMAIN franquicias THEN 404
    ELSE IF s \notin DOMAIN locales THEN 404
    ELSE 200

\* status of POST /franquicias/{f}/sedes with body.sede_id = s
AsignarStatus(rol, f, s) ==
    IF rol # "super_admin" THEN 403
    ELSE IF f \notin DOMAIN franquicias THEN 404
    ELSE IF s \notin DOMAIN locales THEN 404
    ELSE IF locales[s].franquicia_id # NULL /\ locales[s].franquicia_id # f THEN 400
    ELSE 200

\* write 1 of asignar_sede
AsignarWrite1(fs, f, s) == [fs EXCEPT ![f].sedes = AddToSet(@, s)]

asignar_sede(rol, f, s) ==
    /\ prev' = Colecciones
    /\ IF AsignarStatus(rol, f, s) = 200
       THEN /\ franquicias' = AsignarWrite1(franquicias, f, s)
            /\ locales' = UpdateLocal(locales, s, f)
            /\ usuarios' = UpdateManyUsuarios(usuarios, s, f)
            /\ resp' = [op |-> "asignar_sede", status |-> 200, rol |-> rol,
                        f |-> f, s |-> s,
                        usuarios_actualizados |->
                            Cardinality({u \in DOMAIN usuarios :
                                usuarios[u].sede_id = s /\ usuarios[u].franquicia_id # f})]
       ELSE /\ resp' = [op |-> "asignar_sede", status |-> AsignarStatus(rol, f, s),
                        rol |-> rol, f |-> f, s |-> s]
            /\ UNCHANGED <<franquicias, locales, usuarios>>
    /\ UNCHANGED <<next_franq, servicios, clientes, ventas, llamadas>>

\* the removal without the membership check (the site must still exist for
\* the writes to apply)
QuitarStatus_SinMembresia(rol, f, s) ==
    IF rol # "super_admin" THEN 403
    ELSE IF f \notin DOMAIN franquicias THEN 404
    ELSE 200

\* status of DELETE /franquicias/{f}/sedes/{s}
QuitarStatus(rol, f, s) ==
    IF rol # "super_admin" THEN 403
    ELSE IF f \notin DOMAIN franquicias THEN 404
    ELSE IF s \notin Range(franquicias[f].sedes) THEN 400
    ELSE 200

\* write 2 left out
QuitarWrite2_Omitido(ls, s) == ls

\* write 2 of quitar_sede: $unset of the site's franquicia_id
QuitarWrite2(ls, s) == UpdateLocal(ls, s, NULL)

quitar_sede(rol, f, s) ==
    /\ prev' = Colecciones
    /\ IF QuitarStatus(rol, f, s) = 200
       THEN /\ franquicias' = [franquicias EXCEPT ![f].sedes = Pull(@, s)]
            /\ locales' = QuitarWrite2(locales, s)
            /\ usuarios' = UpdateManyUsuarios(usuarios, s, NULL)
            /\ resp' = [op |-> "quitar_sede", status |-> 200, rol |-> rol,
                        f |-> f, s |-> s,
                        usuarios_actualizados |->
                            Cardinality({u \in DOMAIN usuarios :
                                usuarios[u].sede_id = s /\ usuarios[u].franquicia_id # NULL})]
       ELSE /\ resp' = [op |-> "quitar_sede", status |-> QuitarStatus(rol, f, s),
                        rol |-> rol, f |-> f, s |-> s]
            /\ UNCHANGED <<franquicias, locales, usuarios>>
    /\ UNCHANGED <<next_franq, servicios, clientes, ventas, llamadas>>

\* ---------------------------------------------------- authenticated callers
\* get_current_user: the staff accounts of collection_auth as they are now
\* (site-bound accounts carry the tag the propagator wrote), one
\* admin_franquicia per existing franchise, and the super_admin
Sesiones ==
    {usuarios[u] : u \in DOMAIN usuarios}
    \cup {[rol |-> "admin_franquicia", sede_id |-> NULL, franquicia_id |-> f] :
            f \in DOMAIN franquicias}
    \cup {[rol |-> "super_admin", sede_id |-> NULL, franquicia_id |-> NULL]}

\* ------------------------------------------------------------ Mongo filters
\* one condition of a filter document on one field: {campo: valor}, or
\* {campo: {"$exists": False}} (an absent field is held as NULL)
Cumple(doc, cond) ==
    IF cond.op = "no_existe"
    THEN doc[cond.campo] = NULL
    ELSE doc[cond.campo] = cond.valor

\* {"$or": [...]}
CumpleOr(doc, conds) == \E i \in 1..Len(conds) : Cumple(doc, conds[i])

\* {"$and"-like document}: every key must match
CumpleAnd(doc, conds) == \A i \in 1..Len(conds) : Cumple(doc, conds[i])

\* the positions, from i on, of the documents of a collection that satisfy
\* the filter, in the collection's order: cursor.to_list(None); ok[j] tells
\* whether document j satisfies it
RECURSIVE Find(_, _)
Find(ok, i) ==
    IF i > Len(ok) THEN <<>>
    ELSE (IF ok[i] THEN <<i>> ELSE <<>>) \o Find(ok, i + 1)

\* ----------------------------------------------------------- routes_servicios
\* the categories asked for, and those the payloads carry
Categorias == {"corte", "color"}
CategoriasPayload == {"corte"}
FiltrosActivo == {"todos", "true", "false"}

\* _get_franquicia_id_de_sede(sede_id)
franquicia_id_de_sede(sede_id) ==
    IF sede_id = NULL THEN NULL
    ELSE IF sede_id \in DOMAIN locales THEN locales[sede_id].franquicia_id
    ELSE NULL

\* the filter without the franchise branch
build_sede_query_SinFranquicia(sede_id, franquicia_id) ==
    << [campo |-> "sede_id", op |-> "no_existe"],
       [campo |-> "sede_id", op |-> "eq", valor |-> NULL],
       [campo |-> "sede_id", op |-> "eq", valor |-> sede_id] >>

\* _build_sede_query(sede_id, franquicia_id): the list under "$or"
build_sede_query(sede_id, franquicia_id) ==
    << [campo |-> "sede_id", op |-> "no_existe"],
       [campo |-> "sede_id", op |-> "eq", valor |-> NULL],
       [campo |-> "sede_id", op |-> "eq", valor |-> sede_id] >>
    \o (IF franquicia_id # NULL
        THEN << [campo |-> "franquicia_id", op |-> "eq", valor |-> franquicia_id] >>
        ELSE << >>)

\* current_user.get("franquicia_id") or await _get_franquicia_id_de_sede(sede_id)
franquicia_del_usuario(user) ==
    IF user.franquicia_id # NULL
    THEN user.franquicia_id
    ELSE franquicia_id_de_sede(user.sede_id)

\* the scope part of a service listing: the filter for admin_sede, no
\* filter in the else branch
AlcanceServicios(user, doc) ==
    IF user.rol = "admin_sede"
    THEN CumpleOr(doc, build_sede_query(user.sede_id, franquicia_del_usuario(user)))
    ELSE TRUE

\* {"activo": activo} when the parameter is given
CumpleActivo(doc, activo) ==
    activo = "todos" \/ doc.activo = (activo = "true")

\* POST /admin/servicios; the payload carries sede_id, franquicia_id, categoria.
\* data starts as servicio.dict(): for an admin_sede sede_id is overwritten,
\* and franquicia_id only when the caller's site carries one
crear_servicio(user, sede_id, franquicia_id, categoria) ==
    /\ Len(servicios) < MaxServicios
    /\ prev' = Colecciones
    /\ IF user.rol \notin {"super_admin", "admin_sede"}
       THEN /\ resp' = [op |-> "crear_servicio", status |-> 403, user |-> user]
            /\ UNCHANGED servicios
       ELSE LET fsede == franquicia_id_de_sede(user.sede_id)
                data ==
                    IF user.rol = "admin_sede"
                    THEN [sede_id |-> user.sede_id,
                          franquicia_id |-> IF fsede # NULL THEN fsede ELSE franquicia_id,
                          categoria |-> categoria, activo |-> TRUE]
                    ELSE [sede_id |-> sede_id, franquicia_id |-> franquicia_id,
                          categoria |-> categoria, activo |-> TRUE]
                alcance ==
                    IF data.franquicia_id # NULL /\ data.sede_id = NULL THEN "franquicia"
                    ELSE IF data.sede_id # NULL THEN "local"
                    ELSE "global"
            IN  /\ servicios' = Append(servicios, data)
                /\ resp' = [op |-> "crear_servicio", status |-> 200, user |-> user,
                            servicio_id |-> Len(servicios) + 1, alcance |-> alcance]
    /\ UNCHANGED <<franquicias, next_franq, locales, usuarios, clientes, ventas, llamadas>>

\* the collection after a delete that removes the document
servicios_tras_eliminar_Borrando(servicio_id, user) ==
    SubSeq(servicios, 1, servicio_id - 1)
        \o SubSeq(servicios, servicio_id + 1, Len(servicios))

\* Mongo $set on a document: the fields of campos take their values, the
\* other fields of the document stay
Set(doc, campos) ==
    [k \in DOMAIN doc \cup DOMAIN campos |->
        IF k \in DOMAIN campos THEN campos[k] ELSE doc[k]]

\* update_one(filter_query, {"$set": {"activo": False, "deleted_at": now,
\* "deleted_by": email}}): the collection after the update; the caller
\* stands for its email
servicios_tras_eliminar(servicio_id, user) ==
    [servicios EXCEPT ![servicio_id] =
        Set(@, [activo |-> FALSE, deleted_at |-> "now", deleted_by |-> user])]

\* PUT /servicios/{servicio_id} with a payload that carries a category
actualizar_servicio(user, servicio_id, categoria) ==
    /\ prev' = Colecciones
    /\ LET status ==
               IF user.rol \notin {"super_admin", "admin_sede"} THEN 403
               ELSE IF servicio_id \notin DOMAIN servicios THEN 404
               ELSE IF user.rol = "admin_sede"
                       /\ ~(servicios[servicio_id].sede_id = user.sede_id) THEN 403
               ELSE 200
       IN  /\ servicios' =
                IF status = 200
                THEN [servicios EXCEPT ![servicio_id] =
                        Set(@, [categoria |-> categoria, updated_at |-> "now",
                                updated_by |-> user])]
                ELSE servicios
           /\ resp' = [op |-> "actualizar_servicio", status |-> status, user |-> user,
                       servicio_id |-> servicio_id]
    /\ UNCHANGED <<franquicias, next_franq, locales, usuarios, clientes, ventas,
                   llamadas>>

\* DELETE /servicios/{servicio_id}
eliminar_servicio(user, servicio_id) ==
    /\ prev' = Colecciones
    /\ LET status ==
               IF user.rol \notin {"super_admin", "admin_sede"} THEN 403
               ELSE IF servicio_id \notin DOMAIN servicios THEN 404
               ELSE IF user.rol = "admin_sede"
                       /\ servicios[servicio_id].sede_id # user.sede_id THEN 403
               ELSE 200
       IN  /\ servicios' = IF status = 200
                           THEN servicios_tras_eliminar(servicio_id, user)
                           ELSE servicios
           /\ resp' = [op |-> "eliminar_servicio", status |-> status, user |-> user,
                       servicio_id |-> servicio_id]
    /\ UNCHANGED <<franquicias, next_franq, locales, usuarios, clientes, ventas, llamadas>>

\* GET /admin/servicios?activo=
listar_servicios(user, activo) ==
    /\ prev' = Colecciones
    /\ resp' = [op |-> "listar_servicios", status |-> 200, user |-> user,
                activo |-> activo,
                ids |-> Find([i \in 1..Len(servicios) |->
                                 /\ AlcanceServicios(user, servicios[i])
                                 /\ CumpleActivo(servicios[i], activo)], 1)]
    /\ UNCHANGED <<franquicias, next_franq, locales, usuarios, servicios, clientes, ventas, llamadas>>

\* GET /admin/servicios/categoria/{categoria}
listar_servicios_por_categoria(user, categoria) ==
    /\ prev' = Colecciones
    /\ resp' = [op |-> "listar_servicios_por_categoria", status |-> 200, user |-> user,
                categoria |-> categoria,
                ids |-> Find([i \in 1..Len(servicios) |->
                                 /\ servicios[i].categoria = categoria
                                 /\ servicios[i].activo = TRUE
                                 /\ AlcanceServicios(user, servicios[i])], 1)]
    /\ UNCHANGED <<franquicias, next_franq, locales, usuarios, servicios, clientes, ventas, llamadas>>

\* ------------------------------------------------------------ routes_clientes
\* default of the limite parameter of listar_clientes
LimiteListar == 100
\* default of the limite parameter of listar_todos
LimiteTodos == 30
\* the pages asked of listar_todos
Paginas == {1, 2}

\* s[a..b], cut to the length of s: cursor.skip(a - 1).limit(b - a + 1)
Tramo(s, a, b) == SubSeq(s, a, IF b < Len(s) THEN b ELSE Len(s))

\* a contact field the payload leaves out (None), and the emails and phones
\* of the payloads
SinContacto == ""
Correos == {SinContacto, "ana@x.co", "luz@x.co"}
Telefonos == {SinContacto, "3001"}

\* a client created without the tag of its site
franquicia_id_heredada_SinHerencia(sede_info) == NULL

\* franquicia_id = sede_info.get("franquicia_id"): the tag the new client
\* takes from the document of its site
franquicia_id_heredada(sede_info) == sede_info.franquicia_id

\* POST /clientes; the payload carries sede_id and the contact data
crear_cliente(user, sede_id, correo, telefono) ==
    /\ Len(clientes) < MaxClientes
    /\ prev' = Colecciones
    /\ LET sede_objetivo == IF user.sede_id # NULL THEN user.sede_id ELSE sede_id
           status ==
               IF user.rol \notin {"admin_sede", "admin_franquicia", "super_admin"} THEN 403
               ELSE IF sede_objetivo = NULL THEN 400
               ELSE IF sede_objetivo \notin DOMAIN locales THEN 400
               ELSE 200
       IN  IF status = 200
           THEN /\ clientes' = Append(clientes,
                                  [sede_id |-> sede_objetivo,
                                   franquicia_id |->
                                       franquicia_id_heredada(locales[sede_objetivo]),
                                   correo |-> correo, telefono |-> telefono])
                /\ resp' = [op |-> "crear_cliente", status |-> 200, user |-> user,
                            cliente_id |-> Len(clientes) + 1]
           ELSE /\ resp' = [op |-> "crear_cliente", status |-> status, user |-> user]
                /\ UNCHANGED clientes
    /\ UNCHANGED <<franquicias, next_franq, locales, usuarios, servicios, ventas, llamadas>>

\* verificar_duplicado_cliente: the position of the first client, other than
\* exclude_id, with the given email or the given phone; NULL when there is
\* none or when neither is given
verificar_duplicado_cliente(correo, telefono, exclude_id) ==
    LET encontrados ==
            Find([i \in 1..Len(clientes) |->
                     /\ i # exclude_id
                     /\ \/ correo # SinContacto /\ clientes[i].correo = correo
                        \/ telefono # SinContacto /\ clientes[i].telefono = telefono], 1)
    IN  IF correo = SinContacto /\ telefono = SinContacto THEN NULL
        ELSE IF encontrados = <<>> THEN NULL
        ELSE Head(encontrados)

\* PUT /clientes/{id} with a payload of contact data; a field the payload
\* leaves out keeps its value
editar_cliente(user, id, correo, telefono) ==
    /\ prev' = Colecciones
    /\ LET user_franquicia_id == franquicia_id_de_sede(user.sede_id)
           tiene_acceso ==
               \/ user_franquicia_id # NULL
                  /\ user_franquicia_id = clientes[id].franquicia_id
               \/ clientes[id].sede_id = user.sede_id
           status ==
               IF user.rol \notin {"admin_sede", "super_admin"} THEN 403
               ELSE IF id \notin DOMAIN clientes THEN 404
               ELSE IF user.rol = "admin_sede" /\ ~tiene_acceso THEN 403
               ELSE IF verificar_duplicado_cliente(correo, telefono, id) # NULL THEN 400
               ELSE 200
       IN  /\ clientes' =
                IF status = 200
                THEN [clientes EXCEPT
                        ![id].correo = IF correo # SinContacto THEN correo ELSE @,
                        ![id].telefono = IF telefono # SinContacto THEN telefono ELSE @]
                ELSE clientes
           /\ resp' = [op |-> "editar_cliente", status |-> status, user |-> user,
                       cliente_id |-> id]
    /\ UNCHANGED <<franquicias, next_franq, locales, usuarios, servicios, ventas, llamadas>>

\* the base query of listar_clientes and listar_todos for the caller's role:
\* the keys of the filter document (all must match)
QueryClientes(user) ==
    IF user.rol \in {"admin_sede", "estilista"}
    THEN IF franquicia_id_de_sede(user.sede_id) # NULL
         THEN << [campo |-> "franquicia_id", op |-> "eq",
                  valor |-> franquicia_id_de_sede(user.sede_id)] >>
         ELSE << [campo |-> "sede_id", op |-> "eq", valor |-> user.sede_id] >>
    ELSE << >>

\* GET /clientes, without text filter and with the default limit
listar_clientes(user) ==
    /\ prev' = Colecciones
    /\ IF user.rol \notin {"admin_sede", "super_admin", "estilista"}
       THEN resp' = [op |-> "listar_clientes", status |-> 403, user |-> user]
       ELSE resp' = [op |-> "listar_clientes", status |-> 200, user |-> user,
                     ids |-> Tramo(Find([i \in 1..Len(clientes) |->
                                            CumpleAnd(clientes[i], QueryClientes(user))], 1),
                                   1, LimiteListar)]
    /\ UNCHANGED <<franquicias, next_franq, locales, usuarios, servicios, clientes, ventas, llamadas>>

\* GET /clientes/todos, without text filter and with the default limit; the
\* sort key (nombre) is not part of the documents held here, the page is
\* taken in the collection's order
listar_todos(user, pagina) ==
    /\ prev' = Colecciones
    /\ LET sel == Find([i \in 1..Len(clientes) |->
                           CumpleAnd(clientes[i], QueryClientes(user))], 1)
           total == Len(sel)
           skip == (pagina - 1) * LimiteTodos
           total_paginas ==
               IF total > 0 THEN (total + LimiteTodos - 1) \div LimiteTodos ELSE 1
           status ==
               IF user.rol \notin {"super_admin", "admin_sede", "estilista"} THEN 403
               ELSE IF user.rol \in {"admin_sede", "estilista"} /\ user.sede_id = NULL
                    THEN 400
               ELSE IF pagina > total_paginas /\ total_paginas > 0 THEN 404
               ELSE 200
       IN  IF status = 200
           THEN resp' = [op |-> "listar_todos", status |-> 200, user |-> user,
                         pagina |-> pagina, total |-> total,
                         ids |-> Tramo(sel, skip + 1, skip + LimiteTodos)]
           ELSE resp' = [op |-> "listar_todos", status |-> status, user |-> user,
                         pagina |-> pagina]
    /\ UNCHANGED <<franquicias, next_franq, locales, usuarios, servicios, clientes, ventas, llamadas>>

\* ---------------------------------------------------------- sales_dashboard
\* instants of a day the model tells apart: tick 0 is 00:00:00.000000 and
\* tick TicksPerDay - 1 is 23:59:59.999999
TicksPerDay == 4
UltimoTick == TicksPerDay - 1

\* the longest custom range get_date_range accepts, in days
MaxDiasCustom == 365

\* a date string "DD-MM-YYYY" is the tuple <<DD, MM, YYYY>>; <<>> is a
\* parameter that was not given
SinFecha == <<>>

EsBisiesto(y) == (y % 4 = 0) /\ ((y % 100 # 0) \/ (y % 400 = 0))

DiasEnMes(y, m) ==
    CASE m \in {1, 3, 5, 7, 8, 10, 12} -> 31
      [] m \in {4, 6, 9, 11} -> 30
      [] OTHER -> IF EsBisiesto(y) THEN 29 ELSE 28

RECURSIVE DiasAntesDeMes(_, _)
DiasAntesDeMes(y, m) ==
    IF m <= 1 THEN 0 ELSE DiasAntesDeMes(y, m - 1) + DiasEnMes(y, m - 1)

DiasAntesDeAnio(y) ==
    (y - 1) * 365 + ((y - 1) \div 4) - ((y - 1) \div 100) + ((y - 1) \div 400)

\* datetime.strptime(f, "%d-%m-%Y") succeeds
StrptimeOk(f) ==
    /\ f[3] >= 1
    /\ f[2] \in 1..12
    /\ f[1] \in 1..DiasEnMes(f[3], f[2])

\* the proleptic day number of a parsed date
Ordinal(f) == DiasAntesDeAnio(f[3]) + DiasAntesDeMes(f[3], f[2]) + f[1]

\* a datetime: day number and instant of the day
Instante(ordinal, tick) == ordinal * TicksPerDay + tick

\* timedelta(days = n)
Timedelta(n) == n * TicksPerDay

\* (b - a).days
DeltaDays(a, b) == (b - a) \div TicksPerDay

RangoOk(s, e) == [ok |-> TRUE, start |-> s, end |-> e]
RangoError(msg) == [ok |-> FALSE, error |-> msg]

\* get_date_range without the limit on the length of a custom range
get_date_range_SinLimite(period, start_date_custom, end_date_custom, ahora) ==
    LET today_start == Instante(Ordinal(ahora.fecha), 0)
        today == Instante(Ordinal(ahora.fecha), UltimoTick)
    IN  CASE period = "custom" ->
               IF start_date_custom = SinFecha \/ end_date_custom = SinFecha
               THEN RangoError("faltan_fechas")
               ELSE IF ~StrptimeOk(start_date_custom) \/ ~StrptimeOk(end_date_custom)
               THEN RangoError("formato")
               ELSE LET start_date == Instante(Ordinal(start_date_custom), 0)
                        end_date == Instante(Ordinal(end_date_custom), UltimoTick)
                    IN  IF start_date > end_date THEN RangoError("inicio_posterior")
                        ELSE RangoOk(start_date, end_date)
          [] period = "today" -> RangoOk(today_start, today)
          [] period = "last_7_days" -> RangoOk(today_start - Timedelta(6), today)
          [] period = "last_30_days" -> RangoOk(today_start - Timedelta(29), today)
          [] period = "month" ->
               RangoOk(Instante(Ordinal(<<1, ahora.fecha[2], ahora.fecha[3]>>), 0), today)
          [] OTHER -> RangoError("periodo_no_valido")

\* get_date_range(period, start_date_custom, end_date_custom), with the value
\* datetime.now() had when it ran
get_date_range(period, start_date_custom, end_date_custom, ahora) ==
    LET today_start == Instante(Ordinal(ahora.fecha), 0)
        today == Instante(Ordinal(ahora.fecha), UltimoTick)
    IN  CASE period = "custom" ->
               IF start_date_custom = SinFecha \/ end_date_custom = SinFecha
               THEN RangoError("faltan_fechas")
               ELSE IF ~StrptimeOk(start_date_custom) \/ ~StrptimeOk(end_date_custom)
               THEN RangoError("formato")
               ELSE LET start_date == Instante(Ordinal(start_date_custom), 0)
                        end_date == Instante(Ordinal(end_date_custom), UltimoTick)
                        dias == DeltaDays(start_date, end_date) + 1
                    IN  IF start_date > end_date THEN RangoError("inicio_posterior")
                        ELSE IF dias > MaxDiasCustom THEN RangoError("rango_excedido")
                        ELSE RangoOk(start_date, end_date)
          [] period = "today" -> RangoOk(today_start, today)
          [] period = "last_7_days" -> RangoOk(today_start - Timedelta(6), today)
          [] period = "last_30_days" -> RangoOk(today_start - Timedelta(29), today)
          [] period = "month" ->
               RangoOk(Instante(Ordinal(<<1, ahora.fecha[2], ahora.fecha[3]>>), 0), today)
          [] OTHER -> RangoError("periodo_no_valido")

Periodos == {"today", "last_7_days", "last_30_days", "month", "custom", "year"}

\* the date strings of the requests
FechasCustom ==
    {<<1, 1, 2023>>, <<31, 12, 2023>>, <<1, 1, 2024>>, <<29, 2, 2024>>,
     <<30, 12, 2024>>, <<31, 12, 2024>>, <<29, 2, 2023>>, <<1, 13, 2024>>}

\* the values of datetime.now() of the requests
Ahoras == {[fecha |-> <<10, 3, 2024>>, tick |-> 2], [fecha |-> <<1, 1, 2025>>, tick |-> 0]}

\* one evaluation of get_date_range
aplicar_get_date_range(period, start_date, end_date, ahora) ==
    /\ resp' = [op |-> "get_date_range", status |-> 200, period |-> period,
                start_date |-> start_date, end_date |-> end_date, ahora |-> ahora,
                rango |-> get_date_range(period, start_date, end_date, ahora)]
    /\ prev' = Colecciones
    /\ UNCHANGED <<franquicias, next_franq, locales, usuarios, servicios, clientes, ventas, llamadas>>

\* ------------------------------------------------------------ Python floats
\* The amounts of a sale are Python floats (IEEE-754 binary64).  A
\* non-negative float x is held exactly, as the natural number
\* x * 2^EscalaBits in NumLimbs limbs of LimbBits bits, least significant
\* first; the amounts of the model lie between 2^-17 and 2^20, where every
\* binary64 value is such a number.
LimbBits == 15
Base == 2^LimbBits
NumLimbs == 7
EscalaBits == 70
MantisaBits == 53

BigZero == [i \in 1..NumLimbs |-> 0]

\* carry propagation from limb i on
RECURSIVE Llevar(_, _, _)
Llevar(a, i, carry) ==
    IF i > NumLimbs THEN <<>>
    ELSE LET t == a[i] + carry
         IN  <<t % Base>> \o Llevar(a, i + 1, t \div Base)

BigFromInt(n) == Llevar([i \in 1..NumLimbs |-> IF i = 1 THEN n ELSE 0], 1, 0)
BigToInt(a) == a[1] + a[2] * Base + a[3] * Base * Base

BigAdd(a, b) ==
    IF a = BigZero THEN b
    ELSE IF b = BigZero THEN a
    ELSE Llevar([i \in 1..NumLimbs |-> a[i] + b[i]], 1, 0)

BigMulSmall(a, k) ==
    IF a = BigZero THEN BigZero
    ELSE Llevar([i \in 1..NumLimbs |-> a[i] * k], 1, 0)

\* limbs 1..i of a divided by n (0 < n <= Base), rem carried in from the
\* limbs above: quotient and remainder
RECURSIVE DivLimbs(_, _, _, _)
DivLimbs(a, n, i, rem) ==
    IF i = 0 THEN [q |-> <<>>, r |-> rem]
    ELSE LET t == rem * Base + a[i]
             rest == DivLimbs(a, n, i - 1, t % n)
         IN  [q |-> Append(rest.q, t \div n), r |-> rest.r]

BigDivSmall(a, n) ==
    IF a = BigZero THEN [q |-> BigZero, r |-> 0] ELSE DivLimbs(a, n, NumLimbs, 0)

\* a * 2^s
ShiftLeft(a, s) ==
    LET w == s \div LimbBits
        x == BigMulSmall(a, 2^(s % LimbBits))
    IN  IF a = BigZero THEN BigZero
        ELSE SubSeq([i \in 1..w |-> 0] \o x, 1, NumLimbs)

\* a \div 2^s, and whether a bit that was shifted out was set
ShiftRight(a, s) ==
    LET w == s \div LimbBits
        x == SubSeq(a, w + 1, NumLimbs) \o [i \in 1..w |-> 0]
        d == BigDivSmall(x, 2^(s % LimbBits))
    IN  IF a = BigZero THEN [q |-> BigZero, sticky |-> FALSE]
        ELSE [q |-> d.q, sticky |-> (d.r # 0) \/ (\E i \in 1..w : a[i] # 0)]

RECURSIVE BitLenInt(_)
BitLenInt(x) == IF x = 0 THEN 0 ELSE 1 + BitLenInt(x \div 2)

\* number of significant bits of a
BitLen(a) ==
    IF a = BigZero THEN 0
    ELSE LET t == CHOOSE i \in 1..NumLimbs :
                     a[i] # 0 /\ \A j \in (i + 1)..NumLimbs : a[j] = 0
         IN  (t - 1) * LimbBits + BitLenInt(a[t])

\* the integer nearest to (q + fraction) / 2 given q and whether the fraction
\* is non-zero, ties to even
MitadRedondeada(q, sticky) ==
    LET h == BigDivSmall(q, 2)
        sube == h.r = 1 /\ (sticky \/ h.q[1] % 2 = 1)
    IN  IF sube THEN BigAdd(h.q, BigFromInt(1)) ELSE h.q

\* the binary64 value nearest to a (+ a fraction below one unit when sticky),
\* ties to even: the rounding of every float operation
RoundSig(a, sticky) ==
    LET d == BitLen(a) - MantisaBits
    IN  IF d <= 0 THEN a
        ELSE LET s == ShiftRight(a, d - 1)
             IN  ShiftLeft(MitadRedondeada(s.q, s.sticky \/ sticky), d)

\* the float written as the decimal h / 100
Double(h) ==
    LET d == BigDivSmall(ShiftLeft(BigFromInt(h), EscalaBits), 100)
    IN  IF h = 0 THEN BigZero ELSE RoundSig(d.q, d.r # 0)

\* a + b of two floats
FlAdd(a, b) ==
    IF a = BigZero THEN b
    ELSE IF b = BigZero THEN a
    ELSE RoundSig(BigAdd(a, b), FALSE)

\* a / n of a float and a positive int
FlDivInt(a, n) ==
    LET d == BigDivSmall(a, n)
    IN  IF a = BigZero THEN BigZero ELSE RoundSig(d.q, d.r # 0)

\* round(a, 2), in hundredths: the decimal of two places nearest to the exact
\* value of the float, ties to even
Round2(a) ==
    LET s == ShiftRight(BigMulSmall(a, 100), EscalaBits - 1)
    IN  IF a = BigZero THEN 0 ELSE BigToInt(MitadRedondeada(s.q, s.sticky))

\* dict.get(k, def)
Get(doc, k, def) == IF k \in DOMAIN doc THEN doc[k] ELSE def

\* the payment methods calcular_metricas_financieras reads from desglose_pagos
Metodos ==
    {"efectivo", "transferencia", "tarjeta", "tarjeta_credito", "tarjeta_debito",
     "link_de_pago", "giftcard", "addi", "abonos", "otros"}

\* an empty dict
DictVacio == [k \in {} |-> 0]

\* the bucket a currency starts with
BucketInicial ==
    [ventas_totales |-> BigZero, cantidad_ventas |-> 0, ventas_servicios |-> BigZero,
     ventas_productos |-> BigZero,
     metodos_pago |-> [m \in Metodos \cup {"sin_pago"} |-> BigZero]]

\* the loop over the items of a sale: the subtotal of every item of the type
\* is added to valor, in list order
RECURSIVE AcumularItems(_, _, _)
AcumularItems(valor, items, tipo) ==
    IF items = <<>> THEN valor
    ELSE AcumularItems(IF Get(Head(items), "tipo", "servicio") = tipo
                       THEN FlAdd(valor, Get(Head(items), "subtotal", BigZero))
                       ELSE valor,
                       Tail(items), tipo)

\* one iteration of the loop over the sales: the sale is added to the bucket
\* of its currency (the amounts of the documents are not negative, so
\* valor > 0 is valor # 0)
AcumularVenta(acc, venta) ==
    LET moneda == Get(venta, "moneda", "COP")
        base == IF moneda \in DOMAIN acc THEN acc[moneda] ELSE BucketInicial
        desglose_pagos == Get(venta, "desglose_pagos", DictVacio)
        items == Get(venta, "items", <<>>)
        nuevo ==
            [ventas_totales |->
                FlAdd(base.ventas_totales, Get(desglose_pagos, "total", BigZero)),
             cantidad_ventas |-> base.cantidad_ventas + 1,
             ventas_servicios |-> AcumularItems(base.ventas_servicios, items, "servicio"),
             ventas_productos |-> AcumularItems(base.ventas_productos, items, "producto"),
             metodos_pago |->
                [m \in DOMAIN base.metodos_pago |->
                    IF m \in Metodos /\ Get(desglose_pagos, m, BigZero) # BigZero
                    THEN FlAdd(base.metodos_pago[m], Get(desglose_pagos, m, BigZero))
                    ELSE base.metodos_pago[m]]]
    IN  [k \in DOMAIN acc \cup {moneda} |-> IF k = moneda THEN nuevo ELSE acc[k]]

\* the loop over the sales, in list order
RECURSIVE Acumular(_, _, _)
Acumular(acc, lista, i) ==
    IF i > Len(lista) THEN acc ELSE Acumular(AcumularVenta(acc, lista[i]), lista, i + 1)

\* round(n / d) to the nearest integer, ties to even (d > 0)
RoundDiv(n, d) ==
    LET q == n \div d
        r == n - q * d
    IN  IF 2 * r < d THEN q
        ELSE IF 2 * r > d THEN q + 1
        ELSE IF q % 2 = 0 THEN q ELSE q + 1

\* the second loop with sin_pago left in place
Finalizar_SinLimpiar(datos) ==
    [ventas_totales |-> Round2(datos.ventas_totales),
     cantidad_ventas |-> datos.cantidad_ventas,
     ventas_servicios |-> Round2(datos.ventas_servicios),
     ventas_productos |-> Round2(datos.ventas_productos),
     ticket_promedio |->
        IF datos.cantidad_ventas > 0
        THEN Round2(FlDivInt(datos.ventas_totales, datos.cantidad_ventas)) ELSE 0,
     metodos_pago |-> [m \in DOMAIN datos.metodos_pago |-> Round2(datos.metodos_pago[m])]]

\* the second loop: ticket_promedio, rounding to two decimals (the results
\* are in hundredths) and the removal of sin_pago when it is zero
Finalizar(datos) ==
    [ventas_totales |-> Round2(datos.ventas_totales),
     cantidad_ventas |-> datos.cantidad_ventas,
     ventas_servicios |-> Round2(datos.ventas_servicios),
     ventas_productos |-> Round2(datos.ventas_productos),
     ticket_promedio |->
        IF datos.cantidad_ventas > 0
        THEN Round2(FlDivInt(datos.ventas_totales, datos.cantidad_ventas)) ELSE 0,
     metodos_pago |->
        [m \in (DOMAIN datos.metodos_pago) \
               (IF Round2(datos.metodos_pago["sin_pago"]) = 0 THEN {"sin_pago"} ELSE {}) |->
            Round2(datos.metodos_pago[m])]]

calcular_metricas_financieras(lista) ==
    LET acc == Acumular(DictVacio, lista, 1)
    IN  [moneda \in DOMAIN acc |-> Finalizar(acc[moneda])]

\* the growth with a "+" only on a strictly positive value
calcular_crecimiento_PrefijoEstricto(metricas_actuales, metricas_anteriores) ==
    [moneda \in DOMAIN metricas_actuales |->
        LET ventas_actual == metricas_actuales[moneda].ventas_totales
            ventas_anterior ==
                IF moneda \in DOMAIN metricas_anteriores
                THEN metricas_anteriores[moneda].ventas_totales ELSE 0
        IN  IF ventas_anterior > 0
            THEN [ventas |-> RoundDiv((ventas_actual - ventas_anterior) * 1000,
                                      ventas_anterior),
                  prefijo |-> IF ventas_actual > ventas_anterior THEN "+" ELSE ""]
            ELSE [ventas |-> IF ventas_actual > 0 THEN 1000 ELSE 0,
                  prefijo |-> IF ventas_actual > 0 THEN "+" ELSE ""]]

\* calcular_crecimiento: per currency of the current period the growth in
\* tenths of a percent (round(crecimiento, 1)) and the prefix; the totals are
\* in hundredths, and on the totals the sales of the catalogue add up to the
\* rounded quotient of the floats is the rounded exact quotient
calcular_crecimiento(metricas_actuales, metricas_anteriores) ==
    [moneda \in DOMAIN metricas_actuales |->
        LET ventas_actual == metricas_actuales[moneda].ventas_totales
            ventas_anterior ==
                IF moneda \in DOMAIN metricas_anteriores
                THEN metricas_anteriores[moneda].ventas_totales ELSE 0
        IN  IF ventas_anterior > 0
            THEN [ventas |-> RoundDiv((ventas_actual - ventas_anterior) * 1000,
                                      ventas_anterior),
                  prefijo |-> IF ventas_actual >= ventas_anterior THEN "+" ELSE ""]
            ELSE [ventas |-> IF ventas_actual > 0 THEN 1000 ELSE 0,
                  prefijo |-> "+"]]

\* str() of a float held in tenths; negativo tells -0.0 from 0.0
StrFloat1(decimas, negativo) ==
    LET abs == IF decimas < 0 THEN 0 - decimas ELSE decimas
    IN  (IF negativo THEN "-" ELSE "") \o ToString(abs \div 10) \o "."
        \o ToString(abs % 10)

\* f"{prefijo}{ventas}%": the value is negative exactly when the prefix is empty
EtiquetaCrecimiento(info) ==
    info.prefijo \o StrFloat1(info.ventas, info.prefijo = "") \o "%"

\* longest list of sales calcular_metricas_financieras is applied to
MaxLista == 4

\* sale documents of collection_sales, in payment order, their amounts the
\* floats written as 500.00, 0.00, 1000.00, ...: a sale without
\* currency field, a sale of total zero, a sale paid by two methods with a
\* service and a product, a sale in a second currency, and a sale whose item
\* has no type
CatalogoVentas ==
    <<[sede_id |-> 101, fecha_pago |-> Instante(Ordinal(<<1, 3, 2024>>), 1),
       desglose_pagos |-> [total |-> Double(50000), efectivo |-> Double(50000)],
       items |-> <<[tipo |-> "servicio", subtotal |-> Double(50000)]>>],
      [sede_id |-> 102, fecha_pago |-> Instante(Ordinal(<<9, 3, 2024>>), 1),
       moneda |-> "COP",
       desglose_pagos |-> [total |-> Double(0), efectivo |-> Double(0)],
       items |-> <<>>],
      [sede_id |-> 101, fecha_pago |-> Instante(Ordinal(<<10, 3, 2024>>), 1),
       moneda |-> "COP",
       desglose_pagos |-> [total |-> Double(100000), tarjeta |-> Double(60000), efectivo |-> Double(40000)],
       items |-> <<[tipo |-> "servicio", subtotal |-> Double(70000)],
                   [tipo |-> "producto", subtotal |-> Double(30000)]>>],
      [sede_id |-> 102, fecha_pago |-> Instante(Ordinal(<<10, 3, 2024>>), 1),
       moneda |-> "USD",
       desglose_pagos |-> [total |-> Double(2500), transferencia |-> Double(2500)],
       items |-> <<[tipo |-> "producto", subtotal |-> Double(2500)]>>],
      [sede_id |-> 101, fecha_pago |-> Instante(Ordinal(<<10, 3, 2024>>), 2),
       moneda |-> "COP",
       desglose_pagos |-> [total |-> Double(333), otros |-> Double(333)],
       items |-> <<[subtotal |-> Double(333)]>>]>>

\* the lists of sales the function is applied to
ListasVentas == UNION {[1..n -> Range(CatalogoVentas)] : n \in 0..MaxLista}

\* the collections before any request, collection_sales left open
InitSalvoVentas ==
    /\ franquicias = <<>>
    /\ next_franq = 0
    /\ locales = [s \in SedeIds |-> [franquicia_id |-> NULL]]
    /\ usuarios = UsuariosIniciales
    /\ servicios = <<>>
    /\ clientes = <<>>
    /\ llamadas = [p \in Slots |-> LlamadaLibre]
    /\ resp = RespInicial
    /\ prev = [franquicias |-> <<>>,
               locales |-> [s \in SedeIds |-> [franquicia_id |-> NULL]],
               usuarios |-> UsuariosIniciales,
               servicios |-> <<>>, clientes |-> <<>>, resp |-> [op |-> "otra"]]

\* one evaluation of calcular_metricas_financieras, on the sales of the
\* collection
aplicar_calcular_metricas ==
    /\ resp' = [op |-> "calcular_metricas_financieras", status |-> 200,
                entrada |-> ventas,
                salida |-> calcular_metricas_financieras(ventas)]
    /\ prev' = Colecciones
    /\ UNCHANGED <<franquicias, next_franq, locales, usuarios, servicios, clientes, ventas, llamadas>>

\* most sales collection_sales holds
MaxVentas == 5

\* datetime.now() of the dashboard requests
AhoraDashboard == [fecha |-> <<10, 3, 2024>>, tick |-> 2]

\* the query without the filter of the site
get_ventas_periodo_SinSede(start_date, end_date, sede_id, falla) ==
    IF falla THEN <<>>
    ELSE Find([i \in 1..Len(ventas) |->
                  /\ ventas[i].fecha_pago >= start_date
                  /\ ventas[i].fecha_pago <= end_date], 1)

\* get_ventas_periodo: the positions in collection_sales of the sales paid
\* within [start_date, end_date], of the site when one is given; an empty
\* list when the query raises (falla)
get_ventas_periodo(start_date, end_date, sede_id, falla) ==
    IF falla THEN <<>>
    ELSE Find([i \in 1..Len(ventas) |->
                  /\ ventas[i].fecha_pago >= start_date
                  /\ ventas[i].fecha_pago <= end_date
                  /\ (sede_id = NULL \/ ventas[i].sede_id = sede_id)], 1)

\* the documents at the positions ids
DocumentosVentas(ids) == [k \in 1..Len(ids) |-> ventas[ids[k]]]

\* the advisories with the count test of POCAS_VENTAS not chained to the
\* test of SIN_VENTAS
Advertencias_SinElif(n, dias_periodo) ==
    (IF n = 0 THEN <<[tipo |-> "SIN_VENTAS", severidad |-> "CRITICA"]>> ELSE <<>>)
    \o (IF n < 5 THEN <<[tipo |-> "POCAS_VENTAS", severidad |-> "ALTA"]>> ELSE <<>>)
    \o (IF dias_periodo = 1
        THEN <<[tipo |-> "PERIODO_CORTO", severidad |-> "MEDIA"]>> ELSE <<>>)
    \o (IF dias_periodo > 90
        THEN <<[tipo |-> "PERIODO_LARGO", severidad |-> "BAJA"]>> ELSE <<>>)

\* the advisories of a response with n sales in a period of dias_periodo days
Advertencias(n, dias_periodo) ==
    (IF n = 0 THEN <<[tipo |-> "SIN_VENTAS", severidad |-> "CRITICA"]>>
     ELSE IF n < 5 THEN <<[tipo |-> "POCAS_VENTAS", severidad |-> "ALTA"]>>
     ELSE <<>>)
    \o (IF dias_periodo = 1
        THEN <<[tipo |-> "PERIODO_CORTO", severidad |-> "MEDIA"]>> ELSE <<>>)
    \o (IF dias_periodo > 90
        THEN <<[tipo |-> "PERIODO_LARGO", severidad |-> "BAJA"]>> ELSE <<>>)

CalidadDatos(advertencias) ==
    LET severidades == {advertencias[i].severidad : i \in DOMAIN advertencias}
    IN  IF "CRITICA" \in severidades THEN "SIN_DATOS"
        ELSE IF "ALTA" \in severidades THEN "BAJA"
        ELSE IF "MEDIA" \in severidades THEN "MEDIA"
        ELSE "BUENA"

\* GET /ventas/dashboard; falla_actual and falla_anterior tell whether the
\* query of the current and of the previous period raised
ventas_dashboard(user, period, start_date, end_date, sede_id, ahora, falla_actual, falla_anterior) ==
    LET no_autorizado ==
            \/ user.rol \notin {"admin_sede", "admin_franquicia", "super_admin"}
            \/ user.rol = "admin_sede" /\ user.sede_id = NULL
            \/ user.rol = "admin_sede" /\ sede_id # NULL /\ sede_id # user.sede_id
        sede == IF user.rol = "admin_sede" THEN user.sede_id ELSE sede_id
        rango == get_date_range(period, start_date, end_date, ahora)
        dias_periodo == DeltaDays(rango.start, rango.end) + 1
        start_anterior == rango.start - Timedelta(dias_periodo)
        end_anterior == rango.start - Timedelta(1)
        ventas_actuales == get_ventas_periodo(rango.start, rango.end, sede, falla_actual)
        ventas_anteriores ==
            get_ventas_periodo(start_anterior, end_anterior, sede, falla_anterior)
        metricas_actuales == calcular_metricas_financieras(DocumentosVentas(ventas_actuales))
        metricas_anteriores ==
            calcular_metricas_financieras(DocumentosVentas(ventas_anteriores))
        crecimientos == calcular_crecimiento(metricas_actuales, metricas_anteriores)
        advertencias == Advertencias(Len(ventas_actuales), dias_periodo)
    IN  /\ resp' =
              IF no_autorizado
              THEN [op |-> "ventas_dashboard", status |-> 403, user |-> user,
                    sede_pedida |-> sede_id]
              ELSE IF ~rango.ok
              THEN [op |-> "ventas_dashboard", status |-> 400, user |-> user,
                    sede_pedida |-> sede_id,
                    period |-> period, start_date |-> start_date,
                    end_date |-> end_date, error |-> rango.error]
              ELSE [op |-> "ventas_dashboard", status |-> 200, user |-> user,
                    sede_pedida |-> sede_id,
                    period |-> period, start_date |-> start_date,
                    end_date |-> end_date, sede_id |-> sede,
                    rango |-> [start |-> rango.start, end |-> rango.end,
                               dias |-> dias_periodo],
                    anterior |-> [start |-> start_anterior, end |-> end_anterior],
                    ventas_actuales |-> ventas_actuales,
                    ventas_anteriores |-> ventas_anteriores,
                    falla_actual |-> falla_actual,
                    falla_anterior |-> falla_anterior,
                    crecimientos |-> crecimientos,
                    metricas_por_moneda |->
                        [moneda \in DOMAIN metricas_actuales |->
                            [k \in DOMAIN metricas_actuales[moneda]
                                   \cup {"crecimiento_ventas"} |->
                                IF k = "crecimiento_ventas"
                                THEN EtiquetaCrecimiento(crecimientos[moneda])
                                ELSE metricas_actuales[moneda][k]]],
                    ventas_registradas |-> Len(ventas_actuales),
                    calidad_datos |-> CalidadDatos(advertencias),
                    advertencias |-> advertencias]
        /\ prev' = Colecciones
        /\ UNCHANGED <<franquicias, next_franq, locales, usuarios, servicios,
                       clientes, ventas, llamadas>>

\* the site a request names in its sede_id parameter, when it names one
SedeConsultada == 101

\* the requests: the fixed periods, and custom ranges of 1 day, of 2 days,
\* of 101 days, of more than a year and without start date
Solicitudes ==
    {[period |-> p, start_date |-> SinFecha, end_date |-> SinFecha] :
        p \in Periodos \ {"custom"}}
    \cup {[period |-> "custom", start_date |-> a, end_date |-> <<10, 3, 2024>>] :
            a \in {<<10, 3, 2024>>, <<9, 3, 2024>>, <<1, 12, 2023>>,
                   <<1, 1, 2023>>, SinFecha}}

\* the contents of collection_sales: up to MaxVentas sales in payment order,
\* each one of the first four documents of the catalogue (two sites, two
\* currencies, a total of zero, the days before and inside the periods)
ColeccionesVentas ==
    LET indices == UNION {[1..n -> 1..(Len(CatalogoVentas) - 1)] : n \in 0..MaxVentas}
        ordenados == {p \in indices : \A i \in 1..(Len(p) - 1) : p[i] <= p[i + 1]}
    IN  {[i \in 1..Len(p) |-> CatalogoVentas[p[i]]] : p \in ordenados}


\* ------------------------------------------- the propagator, step by step
\* the handlers of routes_franquicias as the scheduler runs them: a request
\* is suspended at each call of the document store, so each find, update and
\* delete is a step of its own; the caller is the super_admin

\* a request enters slot p; reintento tells that it repeats, with the same
\* arguments, the request of the slot that a failure stopped after its first
\* or its second write
iniciar_llamada(p, op, f, s) ==
    /\ llamadas[p].pc \in {"libre", "fin"}
    /\ llamadas' =
         [llamadas EXCEPT ![p] =
            [op |-> op, f |-> f, s |-> s, pc |-> "find_franquicia", status |-> 0,
             fallo_en |-> "",
             reintento |-> /\ @.op = op /\ @.f = f /\ @.s = s
                           /\ @.status = 500
                           /\ @.fallo_en \in {"write2", "write3"}]]
    /\ prev' = Colecciones
    /\ UNCHANGED <<franquicias, next_franq, locales, usuarios, servicios, clientes,
                   ventas, resp>>

\* the request of slot p moves to the store operation pc, or ends with status
Sigue(p, pc) == [llamadas EXCEPT ![p].pc = pc]
Termina(p, status) == [llamadas EXCEPT ![p].pc = "fin", ![p].status = status]

\* the next store operation of the asignar_sede of slot p
paso_asignar_sede(p) ==
    LET c == llamadas[p]
    IN  /\ c.op = "asignar_sede"
        /\ c.pc \notin {"libre", "fin"}
        /\ CASE c.pc = "find_franquicia" ->
                  /\ llamadas' = IF c.f \in DOMAIN franquicias
                                 THEN Sigue(p, "find_sede") ELSE Termina(p, 404)
                  /\ UNCHANGED <<franquicias, locales, usuarios>>
             [] c.pc = "find_sede" ->
                  /\ llamadas' =
                       IF c.s \notin DOMAIN locales THEN Termina(p, 404)
                       ELSE IF locales[c.s].franquicia_id # NULL
                               /\ locales[c.s].franquicia_id # c.f
                       THEN Termina(p, 400)
                       ELSE Sigue(p, "write1")
                  /\ UNCHANGED <<franquicias, locales, usuarios>>
             [] c.pc = "write1" ->
                  /\ franquicias' = IF c.f \in DOMAIN franquicias
                                    THEN AsignarWrite1(franquicias, c.f, c.s)
                                    ELSE franquicias
                  /\ llamadas' = Sigue(p, "write2")
                  /\ UNCHANGED <<locales, usuarios>>
             [] c.pc = "write2" ->
                  /\ locales' = UpdateLocal(locales, c.s, c.f)
                  /\ llamadas' = Sigue(p, "write3")
                  /\ UNCHANGED <<franquicias, usuarios>>
             [] c.pc = "write3" ->
                  /\ usuarios' = UpdateManyUsuarios(usuarios, c.s, c.f)
                  /\ llamadas' = Termina(p, 200)
                  /\ UNCHANGED <<franquicias, locales>>
        /\ UNCHANGED <<next_franq, servicios, clientes, ventas, resp, prev>>

\* the next store operation of the quitar_sede of slot p
paso_quitar_sede(p) ==
    LET c == llamadas[p]
    IN  /\ c.op = "quitar_sede"
        /\ c.pc \notin {"libre", "fin"}
        /\ CASE c.pc = "find_franquicia" ->
                  /\ llamadas' =
                       IF c.f \notin DOMAIN franquicias THEN Termina(p, 404)
                       ELSE IF c.s \notin Range(franquicias[c.f].sedes)
                       THEN Termina(p, 400)
                       ELSE Sigue(p, "write1")
                  /\ UNCHANGED <<franquicias, locales, usuarios>>
             [] c.pc = "write1" ->
                  /\ franquicias' = IF c.f \in DOMAIN franquicias
                                    THEN [franquicias EXCEPT ![c.f].sedes = Pull(@, c.s)]
                                    ELSE franquicias
                  /\ llamadas' = Sigue(p, "write2")
                  /\ UNCHANGED <<locales, usuarios>>
             [] c.pc = "write2" ->
                  /\ locales' = QuitarWrite2(locales, c.s)
                  /\ llamadas' = Sigue(p, "write3")
                  /\ UNCHANGED <<franquicias, usuarios>>
             [] c.pc = "write3" ->
                  /\ usuarios' = UpdateManyUsuarios(usuarios, c.s, NULL)
                  /\ llamadas' = Termina(p, 200)
                  /\ UNCHANGED <<franquicias, locales>>
        /\ UNCHANGED <<next_franq, servicios, clientes, ventas, resp, prev>>

\* the next store operation of the eliminar_franquicia of slot p
paso_eliminar_franquicia(p) ==
    LET c == llamadas[p]
    IN  /\ c.op = "eliminar_franquicia"
        /\ c.pc \notin {"libre", "fin"}
        /\ CASE c.pc = "find_franquicia" ->
                  /\ llamadas' =
                       IF c.f \notin DOMAIN franquicias THEN Termina(p, 404)
                       ELSE IF Len(franquicias[c.f].sedes) > 0 THEN Termina(p, 400)
                       ELSE Sigue(p, "delete_one")
                  /\ UNCHANGED franquicias
             [] c.pc = "delete_one" ->
                  /\ franquicias' = DeleteFranquicia(franquicias, c.f)
                  /\ llamadas' = Termina(p, 200)
        /\ UNCHANGED <<next_franq, locales, usuarios, servicios, clientes, ventas,
                       resp, prev>>

\* a failure that undoes the writes of the request
fallo_de_store_ConRollback(p) ==
    /\ llamadas[p].pc \notin {"libre", "fin"}
    /\ llamadas' = [llamadas EXCEPT ![p].pc = "fin", ![p].status = 500,
                                    ![p].fallo_en = llamadas[p].pc]
    /\ franquicias' = prev.franquicias
    /\ locales' = prev.locales
    /\ usuarios' = prev.usuarios
    /\ UNCHANGED <<next_franq, servicios, clientes, ventas, resp, prev>>

\* the store operation the request of slot p is at raises: except Exception
\* answers 500, and what the request wrote stays
fallo_de_store(p) ==
    /\ llamadas[p].pc \notin {"libre", "fin"}
    /\ llamadas' = [llamadas EXCEPT ![p].pc = "fin", ![p].status = 500,
                                    ![p].fallo_en = llamadas[p].pc]
    /\ UNCHANGED <<franquicias, next_franq, locales, usuarios, servicios, clientes,
                   ventas, resp, prev>>

\* the state in which the requests meet: every franchise created, without
\* sites
InitPropagador ==
    /\ franquicias = [f \in FranqIds |-> [sedes |-> <<>>]]
    /\ next_franq = MaxFranquicias
    /\ locales = [s \in SedeIds |-> [franquicia_id |-> NULL]]
    /\ usuarios = UsuariosIniciales
    /\ servicios = <<>>
    /\ clientes = <<>>
    /\ ventas = <<>>
    /\ llamadas = [p \in Slots |-> LlamadaLibre]
    /\ resp = RespInicial
    /\ prev = [franquicias |-> [f \in FranqIds |-> [sedes |-> <<>>]],
               locales |-> [s \in SedeIds |-> [franquicia_id |-> NULL]],
               usuarios |-> UsuariosIniciales,
               servicios |-> <<>>, clientes |-> <<>>, resp |-> [op |-> "otra"]]

\* GET /clientes/{id}: by-id access rule for admin_sede and estilista: same
\* franchise when both the client and the caller's site carry one, else
\* same site (a client without sede_id passes)
obtener_cliente(user, id) ==
    /\ prev' = Colecciones
    /\ LET cliente_franquicia_id == clientes[id].franquicia_id
           user_franquicia_id == franquicia_id_de_sede(user.sede_id)
           status ==
               IF user.rol \notin {"admin_sede", "super_admin", "estilista"} THEN 403
               ELSE IF id \notin DOMAIN clientes THEN 404
               ELSE IF user.rol \in {"admin_sede", "estilista"}
                    THEN IF cliente_franquicia_id # NULL /\ user_franquicia_id # NULL
                         THEN IF cliente_franquicia_id # user_franquicia_id
                              THEN 403 ELSE 200
                         ELSE IF clientes[id].sede_id # NULL
                                    /\ clientes[id].sede_id # user.sede_id
                              THEN 403 ELSE 200
                    ELSE 200
       IN resp' = [op |-> "obtener_cliente", status |-> status, user |-> user,
                   cliente_id |-> id]
    /\ UNCHANGED <<franquicias, next_franq, locales, usuarios, servicios, clientes, ventas, llamadas>>

\* ------------------------------------------------------------ specification
CrearFranquicia == \E rol \in Roles : crear_franquicia(rol)
EliminarFranquicia == \E rol \in Roles, f \in FranqIds : eliminar_franquicia(rol, f)
AsignarSede == \E rol \in Roles, f \in FranqIds, s \in SedeInputs : asignar_sede(rol, f, s)
QuitarSede == \E rol \in Roles, f \in FranqIds, s \in SedeInputs : quitar_sede(rol, f, s)

Next ==
    \/ CrearFranquicia
    \/ EliminarFranquicia
    \/ AsignarSede
    \/ QuitarSede

Spec == Init /\ [][Next]_vars

\* the franchise topology as the authorised caller changes it
CrearFranquiciaSA == crear_franquicia("super_admin")
AsignarSedeSA == \E f \in FranqIds, s \in SedeIds : asignar_sede("super_admin", f, s)
QuitarSedeSA == \E f \in FranqIds, s \in SedeIds : quitar_sede("super_admin", f, s)

CrearServicio ==
    \E user \in Sesiones, s \in SedeIds \cup {NULL}, f \in FranqIds \cup {NULL},
       c \in CategoriasPayload : crear_servicio(user, s, f, c)
ListarServicios ==
    \E user \in Sesiones, a \in FiltrosActivo : listar_servicios(user, a)
ListarServiciosPorCategoria ==
    \E user \in Sesiones, c \in Categorias : listar_servicios_por_categoria(user, c)

NextServicios ==
    \/ CrearFranquiciaSA
    \/ AsignarSedeSA
    \/ QuitarSedeSA
    \/ CrearServicio
    \/ ListarServicios
    \/ ListarServiciosPorCategoria

SpecServicios == Init /\ [][NextServicios]_vars

CrearCliente ==
    \E user \in Sesiones, s \in SedeInputs \cup {NULL} :
        crear_cliente(user, s, SinContacto, SinContacto)
ListarClientes == \E user \in Sesiones : listar_clientes(user)
ListarTodos == \E user \in Sesiones, p \in Paginas : listar_todos(user, p)

NextClientes ==
    \/ CrearFranquiciaSA
    \/ AsignarSedeSA
    \/ QuitarSedeSA
    \/ CrearCliente
    \/ ListarClientes
    \/ ListarTodos
    \/ \E user \in Sesiones, id \in 1..MaxClientes : obtener_cliente(user, id)

SpecClientes == Init /\ [][NextClientes]_vars

\* get_date_range on the periods and date strings of the requests
GetDateRange ==
    \E period \in Periodos, a \in FechasCustom \cup {SinFecha},
       b \in FechasCustom \cup {SinFecha}, ahora \in Ahoras :
        aplicar_get_date_range(period, a, b, ahora)

NextFechas == GetDateRange

SpecFechas == Init /\ [][NextFechas]_vars

\* calcular_metricas_financieras on every list of sales
InitMetricas == InitSalvoVentas /\ ventas \in ListasVentas

CalcularMetricas == aplicar_calcular_metricas

NextMetricas == CalcularMetricas

SpecMetricas == InitMetricas /\ [][NextMetricas]_vars

\* the dashboard on every content of collection_sales; the handler writes
\* nothing, so every request finds the collection as it was at the start and
\* a behaviour is one request
InitDashboard == InitSalvoVentas /\ ventas \in ColeccionesVentas

VentasDashboard ==
    /\ resp.op = "init"
    /\ \E user \in Sesiones, sol \in Solicitudes, s \in {NULL, SedeConsultada},
          falla_actual \in BOOLEAN, falla_anterior \in BOOLEAN :
           ventas_dashboard(user, sol.period, sol.start_date, sol.end_date, s,
                            AhoraDashboard, falla_actual, falla_anterior)

NextDashboard == VentasDashboard

SpecDashboard == InitDashboard /\ [][NextDashboard]_vars


\* the clients' contact data: clients created and edited with emails and
\* phones, in the sites as they are at the start
CrearClienteContacto ==
    \E user \in Sesiones, s \in SedeIds, correo \in Correos, telefono \in Telefonos :
        crear_cliente(user, s, correo, telefono)
EditarCliente ==
    \E user \in Sesiones, id \in 1..(MaxClientes + 1), correo \in Correos,
       telefono \in Telefonos : editar_cliente(user, id, correo, telefono)

NextContactos ==
    \/ CrearClienteContacto
    \/ EditarCliente

SpecContactos == Init /\ [][NextContactos]_vars

\* clients created while the sites change franchise
CrearClienteEnSede ==
    \E user \in Sesiones, s \in SedeIds :
        crear_cliente(user, s, SinContacto, SinContacto)

NextHerencia ==
    \/ CrearFranquiciaSA
    \/ AsignarSedeSA
    \/ QuitarSedeSA
    \/ CrearClienteEnSede

SpecHerencia == Init /\ [][NextHerencia]_vars


\* services created and deleted, in the sites as they are at the start
CrearServicioEnSede ==
    \E user \in Sesiones, s \in SedeIds \cup {NULL}, c \in CategoriasPayload :
        crear_servicio(user, s, NULL, c)
EliminarServicio ==
    \E user \in Sesiones, id \in 1..(MaxServicios + 1) : eliminar_servicio(user, id)

NextEliminar ==
    \/ CrearServicioEnSede
    \/ EliminarServicio

SpecEliminar == Init /\ [][NextEliminar]_vars

\* services created, edited and deleted
NextEdicion ==
    \/ CrearServicioEnSede
    \/ EliminarServicio
    \/ \E user \in Sesiones, id \in 1..(MaxServicios + 1) :
            actualizar_servicio(user, id, "color")

SpecEdicion == Init /\ [][NextEdicion]_vars


\* two requests of the propagator, one per slot, interleaved at their store
\* operations
NextCarrera ==
    \/ \E p \in Slots, f \in FranqIds, s \in SedeIds,
          op \in {"asignar_sede", "quitar_sede", "eliminar_franquicia"} :
            llamadas[p].pc = "libre" /\ iniciar_llamada(p, op, f, s)
    \/ \E p \in Slots : paso_asignar_sede(p)
    \/ \E p \in Slots : paso_quitar_sede(p)
    \/ \E p \in Slots : paso_eliminar_franquicia(p)

SpecCarrera == InitPropagador /\ [][NextCarrera]_vars

\* requests of the propagator about one site, one after the other, each of
\* which a failure of the store may stop at any of its store operations
NextFallos ==
    \/ \E f \in FranqIds, op \in {"asignar_sede", "quitar_sede"} :
            iniciar_llamada("a", op, f, SedeConsultada)
    \/ paso_asignar_sede("a")
    \/ paso_quitar_sede("a")
    \/ fallo_de_store("a")

SpecFallos == InitPropagador /\ [][NextFallos]_vars


\* the dashboard asked by the admin_franquicia of a franchise that holds the
\* first site and not the second
InitDashboardFranquicia ==
    /\ franquicias = [f \in {1} |-> [sedes |-> <<SedeConsultada>>]]
    /\ next_franq = 1
    /\ locales = [s \in SedeIds |->
                    [franquicia_id |-> IF s = SedeConsultada THEN 1 ELSE NULL]]
    /\ usuarios = UpdateManyUsuarios(UsuariosIniciales, SedeConsultada, 1)
    /\ servicios = <<>>
    /\ clientes = <<>>
    /\ ventas \in ColeccionesVentas
    /\ llamadas = [p \in Slots |-> LlamadaLibre]
    /\ resp = RespInicial
    /\ prev = [franquicias |-> <<>>,
               locales |-> [s \in SedeIds |-> [franquicia_id |-> NULL]],
               usuarios |-> UsuariosIniciales,
               servicios |-> <<>>, clientes |-> <<>>, resp |-> [op |-> "otra"]]

NextDashboardFranquicia ==
    /\ resp.op = "init"
    /\ \E user \in {u \in Sesiones : u.rol = "admin_franquicia"},
          sol \in Solicitudes, s \in {NULL, SedeConsultada} :
            ventas_dashboard(user, sol.period, sol.start_date, sol.end_date, s,
                             AhoraDashboard, FALSE, FALSE)

SpecDashboardFranquicia == InitDashboardFranquicia /\ [][NextDashboardFranquicia]_vars

\* ------------------------------------------------------------------ claims
\* number of occurrences of x in an array field
Ocurrencias(arr, x) == Cardinality({i \in 1..Len(arr) : arr[i] = x})

\* the franchises whose site list holds s
FranquiciasCon(fs, s) == {f \in DOMAIN fs : s \in Range(fs[f].sedes)}

\* C1: after any sequence of complete crear_franquicia / asignar_sede /
\* quitar_sede / eliminar_franquicia calls, a site carries franquicia_id = F
\* exactly when franchise F exists and lists the site, and no site is listed
\* by two franchises (nor twice by one).
C1_BidirectionalConsistency ==
    \A s \in SedeIds :
        /\ \A f \in FranqIds :
              (locales[s].franquicia_id = f) <=>
                  (f \in DOMAIN franquicias /\ s \in Range(franquicias[f].sedes))
        /\ locales[s].franquicia_id \in FranqIds \cup {NULL}
        /\ Cardinality(FranquiciasCon(franquicias, s)) <= 1

\* a site is tagged while a second franchise exists, and the last call was
\* an attempt to assign that site to the second franchise
C1_Witness ==
    /\ resp.op = "asignar_sede" /\ resp.rol = "super_admin"
    /\ resp.s \in SedeIds /\ resp.f \in DOMAIN franquicias
    /\ locales[resp.s].franquicia_id \in FranqIds \ {resp.f}

\* C2: a successful asignar_sede(F, S) on an unassigned site S immediately
\* followed by a successful quitar_sede(F, S) leaves S and the users of S
\* without franquicia_id, F.sedes without S, and every franchise list, site
\* tag and user tag as they were before the pair of calls.
C2_AssignThenUnassign ==
    [][ ( /\ resp.op = "asignar_sede" /\ resp.status = 200
          /\ prev.locales[resp.s].franquicia_id = NULL
          /\ resp'.op = "quitar_sede" /\ resp'.status = 200
          /\ resp'.f = resp.f /\ resp'.s = resp.s )
        => ( /\ locales'[resp.s].franquicia_id = NULL
             /\ \A u \in DOMAIN usuarios' :
                   usuarios'[u].sede_id = resp.s => usuarios'[u].franquicia_id = NULL
             /\ resp.s \notin Range(franquicias'[resp.f].sedes)
             /\ franquicias' = prev.franquicias
             /\ locales' = prev.locales
             /\ usuarios' = prev.usuarios ) ]_vars

\* quitar_sede(F, S) has just succeeded right after asignar_sede(F, S) tagged
\* the users of S
C2_Witness ==
    /\ resp.op = "quitar_sede" /\ resp.status = 200
    /\ prev.resp.op = "asignar_sede"
    /\ prev.resp.f = resp.f /\ prev.resp.s = resp.s
    /\ resp.usuarios_actualizados > 0

\* C3: asignar_sede(F, S) is rejected, with every collection unchanged,
\* exactly when the caller is not super_admin (403), F does not exist (404),
\* S does not exist (404) or S carries another franchise's id (400); in every
\* other case the three writes are applied, and S is listed once in F.sedes,
\* also when S was already assigned to F.
C3_AsignarSedeRechazos ==
    resp.op = "asignar_sede" =>
        LET f == resp.f
            s == resp.s
            NoAutorizado == resp.rol # "super_admin"
            SinFranquicia == f \notin DOMAIN prev.franquicias
            SinSede == s \notin DOMAIN prev.locales
            EnOtra == /\ s \in DOMAIN prev.locales
                      /\ prev.locales[s].franquicia_id \notin {NULL, f}
        IN  /\ (resp.status # 200) <=> (NoAutorizado \/ SinFranquicia \/ SinSede \/ EnOtra)
            /\ (resp.status = 403) <=> NoAutorizado
            /\ (resp.status = 404) => (SinFranquicia \/ SinSede)
            /\ (resp.status = 400) => EnOtra
            /\ resp.status \in {200, 400, 403, 404}
            /\ resp.status # 200 => Docs(Colecciones) = Docs(prev)
            /\ resp.status = 200 =>
                 /\ Ocurrencias(franquicias[f].sedes, s) = 1
                 /\ locales[s].franquicia_id = f
                 /\ \A u \in DOMAIN usuarios :
                       usuarios[u].sede_id = s => usuarios[u].franquicia_id = f
                 /\ (s \in Range(prev.franquicias[f].sedes)
                        => franquicias = prev.franquicias)

\* asignar_sede(F, S) has just succeeded on a site that was already assigned
\* to F
C3_Witness ==
    /\ resp.op = "asignar_sede" /\ resp.status = 200
    /\ prev.locales[resp.s].franquicia_id = resp.f
    /\ resp.s \in Range(prev.franquicias[resp.f].sedes)

\* C4: quitar_sede(F, S) is rejected, with every collection unchanged, when
\* the caller is not super_admin, F does not exist or S is not in F.sedes;
\* otherwise it removes S from F.sedes, clears S.franquicia_id and clears
\* franquicia_id on every user bound to S.
C4_QuitarSede ==
    resp.op = "quitar_sede" =>
        LET f == resp.f
            s == resp.s
            Rechazo == \/ resp.rol # "super_admin"
                       \/ f \notin DOMAIN prev.franquicias
                       \/ s \notin Range(prev.franquicias[f].sedes)
        IN  /\ (resp.status # 200) <=> Rechazo
            /\ resp.status # 200 => Docs(Colecciones) = Docs(prev)
            /\ resp.status = 200 =>
                 /\ s \notin Range(franquicias[f].sedes)
                 /\ \A g \in DOMAIN franquicias :
                       g # f => franquicias[g] = prev.franquicias[g]
                 /\ Range(franquicias[f].sedes) = Range(prev.franquicias[f].sedes) \ {s}
                 /\ locales[s].franquicia_id = NULL
                 /\ \A u \in DOMAIN usuarios :
                       usuarios[u].sede_id = s => usuarios[u].franquicia_id = NULL

\* quitar_sede has just removed a site whose users carried the franchise tag
C4_Witness ==
    /\ resp.op = "quitar_sede" /\ resp.status = 200
    /\ resp.usuarios_actualizados > 0
    /\ prev.locales[resp.s].franquicia_id = resp.f

\* C5: eliminar_franquicia(F) removes the franchise document only if F.sedes
\* was empty at the call; with a non-empty F.sedes the call is rejected (as a
\* conflict, 400, for the super_admin caller that passes the role gate) and no
\* document of any collection is removed or modified.
C5_EliminarFranquicia ==
    resp.op = "eliminar_franquicia" =>
        LET f == resp.f
            Existia == f \in DOMAIN prev.franquicias
        IN  /\ (Existia /\ f \notin DOMAIN franquicias)
                 => Len(prev.franquicias[f].sedes) = 0
            /\ (Existia /\ Len(prev.franquicias[f].sedes) > 0) =>
                 /\ resp.status # 200
                 /\ (resp.rol = "super_admin" => resp.status = 400)
                 /\ Docs(Colecciones) = Docs(prev)
            /\ resp.status = 200 =>
                 /\ f \notin DOMAIN franquicias
                 /\ \A g \in DOMAIN prev.franquicias :
                       g # f => (g \in DOMAIN franquicias
                                   /\ franquicias[g] = prev.franquicias[g])
                 /\ <<locales, usuarios, servicios, clientes>> =
                      <<prev.locales, prev.usuarios, prev.servicios, prev.clientes>>

\* a super_admin has just been refused the deletion of a franchise that
\* still lists a site
C5_Witness ==
    /\ resp.op = "eliminar_franquicia" /\ resp.status = 400
    /\ resp.rol = "super_admin"
    /\ Len(franquicias[resp.f].sedes) > 0

\* C6: after a completed asignar_sede or quitar_sede on site S, every user
\* bound to S carries the franquicia_id of S (none after quitar_sede), and
\* the users bound to another site or to no site are as they were.
C6_UsuariosSincronizados ==
    (resp.op \in {"asignar_sede", "quitar_sede"} /\ resp.status = 200) =>
        \A u \in DOMAIN usuarios :
            IF usuarios[u].sede_id = resp.s
            THEN /\ usuarios[u].franquicia_id = locales[resp.s].franquicia_id
                 /\ usuarios[u].franquicia_id =
                      (IF resp.op = "asignar_sede" THEN resp.f ELSE NULL)
                 /\ [usuarios[u] EXCEPT !.franquicia_id = NULL] =
                      [prev.usuarios[u] EXCEPT !.franquicia_id = NULL]
            ELSE usuarios[u] = prev.usuarios[u]

\* asignar_sede has just tagged the users of one site while a user of
\* another site carries a different tag
C6_Witness ==
    /\ resp.op = "asignar_sede" /\ resp.status = 200
    /\ resp.usuarios_actualizados > 0
    /\ \E u \in DOMAIN usuarios :
          /\ usuarios[u].sede_id \in SedeIds \ {resp.s}
          /\ usuarios[u].franquicia_id \in FranqIds \ {resp.f}

\* the services a caller bound to site s sees under the documented scope
\* rule: no site (global), the caller's site, or the franchise of that site
EnAlcanceDeSede(doc, s) ==
    \/ doc.sede_id = NULL
    \/ doc.sede_id = s
    \/ (locales[s].franquicia_id # NULL
          /\ doc.franquicia_id = locales[s].franquicia_id)

C8_ClientesSedeOFranquicia ==
    (/\ resp.op \in {"listar_clientes", "listar_todos"}
     /\ resp.user.rol \in {"admin_sede", "estilista"}
     /\ resp.user.sede_id \in SedeIds
     /\ (resp.op = "listar_todos" => resp.pagina = 1)) =>
        LET s == resp.user.sede_id
        IN  /\ resp.status = 200
            /\ Range(resp.ids) =
                 {i \in 1..Len(clientes) :
                     \/ clientes[i].sede_id = s
                     \/ (locales[s].franquicia_id # NULL
                           /\ clientes[i].franquicia_id = locales[s].franquicia_id)}

\* C9: a service listing (listar_servicios, listar_servicios_por_categoria)
\* returns to an estilista bound to site S only global services, services of
\* S and services of the franchise of S.
C9_EstilistaAlcance ==
    (/\ resp.op \in {"listar_servicios", "listar_servicios_por_categoria"}
     /\ resp.user.rol = "estilista"
     /\ resp.user.sede_id \in SedeIds) =>
        \A i \in Range(resp.ids) : EnAlcanceDeSede(servicios[i], resp.user.sede_id)

\* C10: a client or service listing asked by an admin_franquicia of
\* franchise F succeeds and returns exactly the records without site (global)
\* and the records with franquicia_id = F.
C10_AdminFranquiciaAlcance ==
    (/\ resp.op \in {"listar_servicios", "listar_clientes", "listar_todos"}
     /\ resp.user.rol = "admin_franquicia"
     /\ resp.user.franquicia_id \in FranqIds) =>
        LET col == IF resp.op = "listar_servicios" THEN servicios ELSE clientes
        IN  /\ resp.status = 200
            /\ Range(resp.ids) =
                 {i \in 1..Len(col) :
                     /\ \/ col[i].sede_id = NULL
                        \/ col[i].franquicia_id = resp.user.franquicia_id
                     /\ (resp.op = "listar_servicios" =>
                            (resp.activo = "todos"
                               \/ col[i].activo = (resp.activo = "true")))}

\* the inclusive number of calendar days from date a to date b
Span(a, b) == Ordinal(b) - Ordinal(a) + 1

BienFormadas(a, b) ==
    a # SinFecha /\ b # SinFecha /\ StrptimeOk(a) /\ StrptimeOk(b)

\* C12 (as stated): a custom range is accepted exactly when both dates are
\* given and well formed, start <= end and the inclusive span is at most 366
\* days; an accepted range is returned as requested, never clamped.
C12_CustomRange366 ==
    (resp.op = "get_date_range" /\ resp.period = "custom") =>
        LET a == resp.start_date
            b == resp.end_date
        IN  /\ resp.rango.ok <=>
                   (BienFormadas(a, b) /\ Span(a, b) >= 1 /\ Span(a, b) <= 366)
            /\ resp.rango.ok =>
                   /\ resp.rango.start = Instante(Ordinal(a), 0)
                   /\ resp.rango.end = Instante(Ordinal(b), UltimoTick)

\* C12 (amended): a custom range is accepted exactly when both dates are
\* given and well formed, start <= end and the inclusive span is at most 365
\* days (a 366-day range is rejected); an accepted range is returned as
\* requested, from 00:00:00 of the start date to 23:59:59.999999 of the end
\* date, never clamped.
C12_CustomRange365 ==
    (resp.op = "get_date_range" /\ resp.period = "custom") =>
        LET a == resp.start_date
            b == resp.end_date
        IN  /\ resp.rango.ok <=>
                   (BienFormadas(a, b) /\ Span(a, b) >= 1 /\ Span(a, b) <= 365)
            /\ resp.rango.ok =>
                   /\ resp.rango.start = Instante(Ordinal(a), 0)
                   /\ resp.rango.end = Instante(Ordinal(b), UltimoTick)

\* a custom range of exactly 365 days was accepted
C12_Witness ==
    /\ resp.op = "get_date_range"
    /\ resp.period = "custom"
    /\ resp.rango.ok
    /\ Span(resp.start_date, resp.end_date) = 365

\* what the sales of one currency in a list paid by one method, in
\* hundredths: the exact sum of the positive amounts
RECURSIVE PagadoPor(_, _, _)
PagadoPor(lista, moneda, metodo) ==
    IF lista = <<>> THEN 0
    ELSE (IF Get(Head(lista), "moneda", "COP") = moneda
             /\ metodo \in DOMAIN Head(lista).desglose_pagos
          THEN Round2(Head(lista).desglose_pagos[metodo]) ELSE 0)
         + PagadoPor(Tail(lista), moneda, metodo)

\* C14 (as stated): in the result of calcular_metricas_financieras no
\* payment-method key whose accumulated value is zero is present in
\* metodos_pago of any currency bucket.
C14_NoZeroMethodKey ==
    resp.op = "calcular_metricas_financieras" =>
        \A moneda \in DOMAIN resp.salida :
            \A m \in DOMAIN resp.salida[moneda].metodos_pago :
                resp.salida[moneda].metodos_pago[m] # 0

\* C14 (amended): in the result of calcular_metricas_financieras the key
\* sin_pago, whose value is always zero, is never present in metodos_pago;
\* each of the ten payment methods read from desglose_pagos is present in
\* every currency bucket with its accumulated sum, zero included.
C14_OnlySinPagoDropped ==
    resp.op = "calcular_metricas_financieras" =>
        \A moneda \in DOMAIN resp.salida :
            /\ DOMAIN resp.salida[moneda].metodos_pago = Metodos
            /\ \A m \in Metodos :
                  resp.salida[moneda].metodos_pago[m] =
                      PagadoPor(resp.entrada, moneda, m)

\* a bucket came out with one method at zero and another one paid
C14_Witness ==
    /\ resp.op = "calcular_metricas_financieras"
    /\ "COP" \in DOMAIN resp.salida
    /\ resp.salida["COP"].metodos_pago["addi"] = 0
    /\ resp.salida["COP"].metodos_pago["tarjeta"] > 0

\* the list with its elements in the order p
Permutar(lista, p) == [i \in 1..Len(lista) |-> lista[p[i]]]

\* C15: calcular_metricas_financieras gives the same per-currency metrics
\* for every permutation of the list of sales, and a sale in one currency
\* leaves the bucket of every other currency as it was.
C15_OrderIndependent ==
    resp.op = "calcular_metricas_financieras" =>
        /\ \A p \in Permutations(1..Len(resp.entrada)) :
              calcular_metricas_financieras(Permutar(resp.entrada, p)) = resp.salida
        /\ \A v \in Range(CatalogoVentas), moneda \in DOMAIN resp.salida :
              Get(v, "moneda", "COP") # moneda =>
                  /\ calcular_metricas_financieras(Append(resp.entrada, v))[moneda]
                         = resp.salida[moneda]
                  /\ calcular_metricas_financieras(<<v>> \o resp.entrada)[moneda]
                         = resp.salida[moneda]


\* C11: in a successful dashboard response the previous period is the window
\* right before the current one: it ends at the last instant of the day
\* before current.start, starts dias_periodo days before current.start, and
\* every instant from previous.start to current.end lies in exactly one of
\* the two windows.
C11_PreviousWindowAdjacent ==
    (resp.op = "ventas_dashboard" /\ resp.status = 200) =>
        /\ resp.anterior.end = resp.rango.start - 1
        /\ resp.anterior.start = resp.rango.start - Timedelta(resp.rango.dias)
        /\ \A t \in resp.anterior.start..resp.rango.end :
              (t >= resp.anterior.start /\ t <= resp.anterior.end)
                  # (t >= resp.rango.start /\ t <= resp.rango.end)


\* the total in hundredths of the sales of a currency among the sales at the
\* positions ids of collection_sales
RECURSIVE TotalDe(_, _)
TotalDe(ids, moneda) ==
    IF ids = <<>> THEN 0
    ELSE TotalDe(Tail(ids), moneda)
         + (IF Get(ventas[Head(ids)], "moneda", "COP") = moneda
            THEN Round2(ventas[Head(ids)].desglose_pagos.total) ELSE 0)

\* the label of a growth of v tenths of a percent from a previous total ant
\* to a current total cur, cero the label of a growth from zero to zero
EtiquetaEsperada(cur, ant, v, cero) ==
    LET abs == IF v < 0 THEN 0 - v ELSE v
        dif == v * ant - (cur - ant) * 1000
    IN  IF ant = 0 THEN (IF cur > 0 THEN {"+100.0%"} ELSE {cero})
        ELSE IF 2 * dif <= ant /\ 2 * dif >= 0 - ant
             THEN {(IF cur >= ant THEN "+" ELSE "-") \o ToString(abs \div 10)
                   \o "." \o ToString(abs % 10) \o "%"}
             ELSE {}

\* C13 as stated: every currency of a successful dashboard response carries
\* the label of (current - previous) / previous * 100 when the previous total
\* is positive ("+100.0%" from 500 to 1000), "+100.0%" when the previous total
\* is zero or absent and the current one positive, and "0.0%" when both are
\* zero.
C13_GrowthLabelZero ==
    (resp.op = "ventas_dashboard" /\ resp.status = 200) =>
        \A moneda \in DOMAIN resp.metricas_por_moneda :
            resp.metricas_por_moneda[moneda].crecimiento_ventas
                \in EtiquetaEsperada(TotalDe(resp.ventas_actuales, moneda),
                                     TotalDe(resp.ventas_anteriores, moneda),
                                     resp.crecimientos[moneda].ventas, "0.0%")

\* C13 amended: the currencies that carry a label are those of the sales of
\* the current period; the label is that of (current - previous) / previous
\* * 100 rounded to one decimal when the previous total is positive, prefixed
\* "+" when not negative ("+100.0%" from 500 to 1000), "+100.0%" when the
\* previous total is zero or absent and the current one positive, and "+0.0%"
\* when both are zero.
C13_GrowthLabelPlusZero ==
    (resp.op = "ventas_dashboard" /\ resp.status = 200) =>
        /\ DOMAIN resp.metricas_por_moneda
              = {Get(ventas[resp.ventas_actuales[i]], "moneda", "COP") :
                    i \in DOMAIN resp.ventas_actuales}
        /\ \A moneda \in DOMAIN resp.metricas_por_moneda :
              /\ resp.metricas_por_moneda[moneda].crecimiento_ventas
                    \in EtiquetaEsperada(TotalDe(resp.ventas_actuales, moneda),
                                         TotalDe(resp.ventas_anteriores, moneda),
                                         resp.crecimientos[moneda].ventas, "+0.0%")
              /\ (TotalDe(resp.ventas_actuales, moneda) = 100000
                  /\ TotalDe(resp.ventas_anteriores, moneda) = 50000)
                    => resp.metricas_por_moneda[moneda].crecimiento_ventas = "+100.0%"

\* a response with a currency whose total is zero in both periods
C13_Witness ==
    /\ resp.op = "ventas_dashboard" /\ resp.status = 200
    /\ \E moneda \in DOMAIN resp.metricas_por_moneda :
          /\ TotalDe(resp.ventas_actuales, moneda) = 0
          /\ TotalDe(resp.ventas_anteriores, moneda) = 0
          /\ resp.metricas_por_moneda[moneda].crecimiento_ventas = "+0.0%"


\* C16: the dashboard never answers success when one of its two queries of
\* the sales failed.
C16_StoreFailureSurfaced ==
    (resp.op = "ventas_dashboard" /\ resp.status = 200) =>
        ~resp.falla_actual /\ ~resp.falla_anterior


\* the severities of the advisories of the response
SeveridadesDe(advertencias) ==
    {advertencias[i].severidad : i \in DOMAIN advertencias}

\* C19: in a successful dashboard response with n current sales over a
\* period of d days, a critical advisory is present exactly when n = 0, a
\* high one exactly when 0 < n < 5, a medium one exactly when d = 1, a low
\* one exactly when d > 90; the quality label is SIN_DATOS with a critical
\* advisory, else BAJA with a high one, else MEDIA with a medium one, else
\* BUENA; and a request that is authorized and has a valid period is
\* answered with success whatever its advisories.
C19_AdvisoriesAndQuality ==
    (resp.op = "ventas_dashboard") =>
        /\ resp.status \in {200, 400, 403}
        /\ resp.status = 200 =>
             LET n == Len(resp.ventas_actuales)
                 d == (resp.rango.end - resp.rango.start) \div TicksPerDay + 1
                 sev == SeveridadesDe(resp.advertencias)
             IN  /\ resp.ventas_registradas = n
                 /\ sev \subseteq {"CRITICA", "ALTA", "MEDIA", "BAJA"}
                 /\ ("CRITICA" \in sev) = (n = 0)
                 /\ ("ALTA" \in sev) = (n > 0 /\ n < 5)
                 /\ ("MEDIA" \in sev) = (d = 1)
                 /\ ("BAJA" \in sev) = (d > 90)
                 /\ resp.calidad_datos =
                        (IF n = 0 THEN "SIN_DATOS"
                         ELSE IF n < 5 THEN "BAJA"
                         ELSE IF d = 1 THEN "MEDIA"
                         ELSE "BUENA")
        /\ resp.status = 400 =>
             ~get_date_range(resp.period, resp.start_date, resp.end_date,
                             AhoraDashboard).ok
        /\ resp.status = 403 =>
             resp.user.rol \notin {"admin_franquicia", "super_admin"}

\* a response with five sales over more than 90 days: a low advisory alone,
\* and the label BUENA
C19_Witness ==
    /\ resp.op = "ventas_dashboard" /\ resp.status = 200
    /\ Len(resp.ventas_actuales) >= 5
    /\ SeveridadesDe(resp.advertencias) = {"BAJA"}
    /\ resp.calidad_datos = "BUENA"


\* C17: no two distinct clients share a non-empty email, none share a
\* non-empty phone, and a crear_cliente or editar_cliente that is rejected
\* leaves the clients as they were.
C17_UniqueContacts ==
    /\ \A i, j \in DOMAIN clientes :
          i # j =>
              /\ clientes[i].correo # SinContacto
                    => clientes[i].correo # clientes[j].correo
              /\ clientes[i].telefono # SinContacto
                    => clientes[i].telefono # clientes[j].telefono
    /\ (resp.op \in {"crear_cliente", "editar_cliente"} /\ resp.status # 200)
          => clientes = prev.clientes


\* C18: a client created with success carries the franquicia_id its site had
\* at that moment (none when the site was untagged); asignar_sede and
\* quitar_sede leave every client as it was; and no later call changes a
\* client that exists: its franquicia_id stays the one of its creation.
C18_ClientTagInheritedOnce ==
    /\ (resp.op = "crear_cliente" /\ resp.status = 200) =>
          /\ Len(clientes) = Len(prev.clientes) + 1
          /\ resp.cliente_id = Len(clientes)
          /\ clientes[Len(clientes)].sede_id \in DOMAIN prev.locales
          /\ clientes[Len(clientes)].franquicia_id
                = prev.locales[clientes[Len(clientes)].sede_id].franquicia_id
    /\ resp.op \in {"asignar_sede", "quitar_sede"} => clientes = prev.clientes
    /\ \A i \in DOMAIN prev.clientes :
          i \in DOMAIN clientes /\ clientes[i] = prev.clientes[i]

\* a site was given to a franchise after a client was created in it: the
\* client keeps the tag of its creation, which is no longer its site's
C18_Witness ==
    /\ resp.op = "asignar_sede" /\ resp.status = 200
    /\ \E i \in DOMAIN clientes :
          /\ clientes[i].sede_id = resp.s
          /\ clientes[i].franquicia_id # locales[resp.s].franquicia_id


\* C20: after a successful eliminar_servicio the service is still in the
\* collection, with activo false and the deletion actor and time set and its
\* other fields as they were, every other service is as it was and the
\* collection has as many services as before; a rejected eliminar_servicio
\* (403 or 404) leaves the collection as it was.
C20_SoftDelete ==
    resp.op = "eliminar_servicio" =>
        /\ resp.status \in {200, 403, 404}
        /\ resp.status # 200 => servicios = prev.servicios
        /\ resp.status = 200 =>
              /\ Len(servicios) = Len(prev.servicios)
              /\ resp.servicio_id \in DOMAIN servicios
              /\ servicios[resp.servicio_id].activo = FALSE
              /\ servicios[resp.servicio_id].deleted_by = resp.user
              /\ servicios[resp.servicio_id].deleted_at = "now"
              /\ \A k \in {"sede_id", "franquicia_id", "categoria"} :
                    servicios[resp.servicio_id][k] = prev.servicios[resp.servicio_id][k]
              /\ \A i \in DOMAIN servicios :
                    i # resp.servicio_id => servicios[i] = prev.servicios[i]

\* an admin_sede deleted the service of its site while the collection holds
\* another service, still active
C20_Witness ==
    /\ resp.op = "eliminar_servicio" /\ resp.status = 200
    /\ resp.user.rol = "admin_sede"
    /\ prev.servicios[resp.servicio_id].activo
    /\ \E i \in DOMAIN servicios : i # resp.servicio_id /\ servicios[i].activo


\* the two requests are asignar_sede of one site to two franchises, and both
\* ended with success
DosAsignacionesCumplidas ==
    /\ \A p \in Slots : /\ llamadas[p].op = "asignar_sede"
                        /\ llamadas[p].pc = "fin" /\ llamadas[p].status = 200
    /\ llamadas["a"].s = llamadas["b"].s
    /\ llamadas["a"].f # llamadas["b"].f

\* C21: when two asignar_sede of one site to two franchises both end with
\* success, the site is in the site lists of both franchises and the tag of
\* the site and the tags of its users are each the franchise of one of the
\* two requests; every write 2 leaves the site with the franchise of the
\* request that makes it and every write 3 does so for the users of the site
\* (the last write wins per field).
C21_LastWriteWinsPerField ==
    /\ [](DosAsignacionesCumplidas =>
            LET a == llamadas["a"]
                b == llamadas["b"]
            IN  /\ a.s \in Range(franquicias[a.f].sedes)
                /\ a.s \in Range(franquicias[b.f].sedes)
                /\ locales[a.s].franquicia_id \in {a.f, b.f}
                /\ \A u \in DOMAIN usuarios :
                      usuarios[u].sede_id = a.s
                          => usuarios[u].franquicia_id \in {a.f, b.f})
    /\ [][\A p \in Slots :
            LET c == llamadas[p]
            IN  /\ (c.op = "asignar_sede" /\ c.pc = "write2"
                        /\ llamadas'[p].pc = "write3")
                      => locales'[c.s].franquicia_id = c.f
                /\ (c.op = "asignar_sede" /\ c.pc = "write3"
                        /\ llamadas'[p].status = 200)
                      => \A u \in DOMAIN usuarios :
                            usuarios[u].sede_id = c.s
                                => usuarios'[u].franquicia_id = c.f]_vars

\* both requests passed the check and ended: the site is in both lists, its
\* tag is the franchise of one request and the tag of its users the
\* franchise of the other
C21_Witness ==
    /\ DosAsignacionesCumplidas
    /\ llamadas["a"].s \in Range(franquicias[llamadas["a"].f].sedes)
    /\ llamadas["a"].s \in Range(franquicias[llamadas["b"].f].sedes)
    /\ locales[llamadas["a"].s].franquicia_id = llamadas["a"].f
    /\ \E u \in DOMAIN usuarios :
          /\ usuarios[u].sede_id = llamadas["a"].s
          /\ usuarios[u].franquicia_id = llamadas["b"].f


\* C22: when a store failure stops asignar_sede or quitar_sede the caller
\* gets a 500 and the collections are those of the start of the request with
\* the writes made before the failure applied and the others not: stopped at
\* write 2 or 3, asignar_sede leaves the site in the franchise's list (and
\* quitar_sede out of it); stopped at write 2, the tag of the site and the
\* tags of the users are as they were; stopped at write 3, the tags of the
\* users are as they were. Nothing is rolled back.
C22_PartialWritesRemain ==
    LET c == llamadas["a"]
        escrito == c.fallo_en \in {"write2", "write3"}
    IN  (c.pc = "fin" /\ c.status = 500) =>
            /\ c.fallo_en \in {"find_franquicia", "find_sede", "write1", "write2",
                               "write3"}
            /\ ~escrito => /\ franquicias = prev.franquicias
                           /\ locales = prev.locales
                           /\ usuarios = prev.usuarios
            /\ escrito =>
                  /\ DOMAIN franquicias = DOMAIN prev.franquicias
                  /\ \A g \in DOMAIN franquicias :
                        g # c.f => franquicias[g] = prev.franquicias[g]
                  /\ (c.s \in Range(franquicias[c.f].sedes)) = (c.op = "asignar_sede")
                  /\ usuarios = prev.usuarios
            /\ c.fallo_en = "write2" => locales = prev.locales
            /\ c.fallo_en = "write3" =>
                  /\ locales[c.s].franquicia_id
                        = (IF c.op = "asignar_sede" THEN c.f ELSE NULL)
                  /\ \A l \in DOMAIN locales : l # c.s => locales[l] = prev.locales[l]

\* asignar_sede stopped at write 2: the site is in the franchise's list and
\* its tag and the tags of its users are not the franchise
C22_Witness ==
    LET c == llamadas["a"]
    IN  /\ c.op = "asignar_sede" /\ c.pc = "fin" /\ c.status = 500
        /\ c.fallo_en = "write2"
        /\ c.s \in Range(franquicias[c.f].sedes)
        /\ locales[c.s].franquicia_id # c.f
        /\ \E u \in DOMAIN usuarios :
              usuarios[u].sede_id = c.s /\ usuarios[u].franquicia_id # c.f


\* C26: a request that repeats, with the same arguments, an asignar_sede or
\* quitar_sede that a failure stopped after its first or second write, and
\* that no failure stops, ends with success, and then the franchise's list,
\* the tag of the site and the tags of its users agree.
C26_RetryRepairs ==
    LET c == llamadas["a"]
        f == IF c.op = "asignar_sede" THEN c.f ELSE NULL
    IN  (c.reintento /\ c.pc = "fin" /\ c.status # 500) =>
            /\ c.status = 200
            /\ (c.s \in Range(franquicias[c.f].sedes)) = (c.op = "asignar_sede")
            /\ locales[c.s].franquicia_id = f
            /\ \A u \in DOMAIN usuarios :
                  usuarios[u].sede_id = c.s => usuarios[u].franquicia_id = f


\* C26 amended: a request that repeats an asignar_sede stopped after its
\* first or second write, and that no failure stops, ends with success, and
\* then the site is once in the franchise's list and the tag of the site and
\* the tags of its users are the franchise; a request that repeats a
\* quitar_sede stopped after its first or second write is rejected with 400
\* and leaves the collections as the stopped request left them, the site out
\* of the franchise's list.
C26_RetryRepairsAssignOnly ==
    LET c == llamadas["a"]
    IN  (c.reintento /\ c.pc = "fin" /\ c.status # 500) =>
            IF c.op = "asignar_sede"
            THEN /\ c.status = 200
                 /\ Ocurrencias(franquicias[c.f].sedes, c.s) = 1
                 /\ locales[c.s].franquicia_id = c.f
                 /\ \A u \in DOMAIN usuarios :
                       usuarios[u].sede_id = c.s => usuarios[u].franquicia_id = c.f
            ELSE /\ c.status = 400
                 /\ c.s \notin Range(franquicias[c.f].sedes)
                 /\ franquicias = prev.franquicias
                 /\ locales = prev.locales
                 /\ usuarios = prev.usuarios

\* the repeated quitar_sede was rejected while the site, out of the
\* franchise's list, still carries the franchise
C26_Witness ==
    LET c == llamadas["a"]
    IN  /\ c.reintento /\ c.pc = "fin"
        /\ c.op = "quitar_sede" /\ c.status = 400
        /\ c.s \notin Range(franquicias[c.f].sedes)
        /\ locales[c.s].franquicia_id = c.f


\* C25: when one eliminar_franquicia and one asignar_sede of the same
\* franchise have both ended, whatever their interleaving, the tag of every
\* site, if set, names an existing franchise whose site list holds the site.
C25_NoDanglingTag ==
    (\E p, q \in Slots :
        /\ llamadas[p].op = "eliminar_franquicia" /\ llamadas[p].pc = "fin"
        /\ llamadas[q].op = "asignar_sede" /\ llamadas[q].pc = "fin"
        /\ llamadas[p].f = llamadas[q].f) =>
        \A l \in DOMAIN locales :
            locales[l].franquicia_id # NULL =>
                /\ locales[l].franquicia_id \in DOMAIN franquicias
                /\ l \in Range(franquicias[locales[l].franquicia_id].sedes)


\* C23: an actualizar_servicio or eliminar_servicio of an admin_sede ends
\* with success only on a service whose sede_id is set and is the caller's
\* site; on a global service (no sede_id) and on a service of another site
\* it is rejected with 403 and changes nothing, also for an admin_sede
\* without site.
C23_AdminSedeOwnSiteOnly ==
    (/\ resp.op \in {"actualizar_servicio", "eliminar_servicio"}
     /\ resp.user.rol = "admin_sede"
     /\ resp.servicio_id \in DOMAIN prev.servicios) =>
        LET servicio_sede == prev.servicios[resp.servicio_id].sede_id
            propio == servicio_sede # NULL /\ servicio_sede = resp.user.sede_id
        IN  /\ resp.status = 200 => propio
            /\ ~propio => resp.status = 403 /\ servicios = prev.servicios


\* C24: the dashboard rejects with 403 an estilista, an admin_sede without
\* site and an admin_sede that names another site; it accepts an admin_sede
\* that names its site or none, and then the sales of both periods are those
\* of the caller's site paid within the period, and the totals and counts of
\* the response are those of these sales.
C24_AdminSedeOwnSales ==
    resp.op = "ventas_dashboard" =>
        /\ resp.user.rol = "estilista" => resp.status = 403
        /\ resp.user.rol = "admin_sede" =>
              /\ (resp.status = 403) =
                    (\/ resp.user.sede_id = NULL
                     \/ resp.sede_pedida \notin {NULL, resp.user.sede_id})
              /\ resp.status = 200 =>
                    /\ resp.sede_id = resp.user.sede_id
                    /\ Range(resp.ventas_actuales) =
                          {i \in DOMAIN ventas :
                              /\ ~resp.falla_actual
                              /\ ventas[i].sede_id = resp.user.sede_id
                              /\ ventas[i].fecha_pago >= resp.rango.start
                              /\ ventas[i].fecha_pago <= resp.rango.end}
                    /\ Range(resp.ventas_anteriores) =
                          {i \in DOMAIN ventas :
                              /\ ~resp.falla_anterior
                              /\ ventas[i].sede_id = resp.user.sede_id
                              /\ ventas[i].fecha_pago >= resp.anterior.start
                              /\ ventas[i].fecha_pago <= resp.anterior.end}
                    /\ \A moneda \in DOMAIN resp.metricas_por_moneda :
                          /\ resp.metricas_por_moneda[moneda].ventas_totales
                                = TotalDe(resp.ventas_actuales, moneda)
                          /\ resp.metricas_por_moneda[moneda].cantidad_ventas
                                = Cardinality({i \in Range(resp.ventas_actuales) :
                                      Get(ventas[i], "moneda", "COP") = moneda})

\* an admin_sede that names no site gets the sales of its site while the
\* period holds a sale of another site
C24_Witness ==
    /\ resp.op = "ventas_dashboard" /\ resp.status = 200
    /\ resp.user.rol = "admin_sede" /\ resp.sede_pedida = NULL
    /\ resp.ventas_actuales # <<>>
    /\ \E i \in DOMAIN ventas :
          /\ ventas[i].sede_id # resp.user.sede_id
          /\ ventas[i].fecha_pago >= resp.rango.start
          /\ ventas[i].fecha_pago <= resp.rango.end


\* C30: the sales of both periods of a dashboard answered to an
\* admin_franquicia are sales of sites of the caller's franchise, whatever
\* site the request names.
C30_AdminFranquiciaOwnSales ==
    (/\ resp.op = "ventas_dashboard" /\ resp.status = 200
     /\ resp.user.rol = "admin_franquicia") =>
        \A i \in Range(resp.ventas_actuales) \cup Range(resp.ventas_anteriores) :
            ventas[i].sede_id \in Range(franquicias[resp.user.franquicia_id].sedes)


\* C27: a listing of services answered to an admin_sede holds no
\* franchise-wide service (franquicia_id set, no sede_id) of a franchise
\* other than the one of the caller's site.
C27_NoForeignFranchiseService ==
    (/\ resp.op \in {"listar_servicios", "listar_servicios_por_categoria"}
     /\ resp.user.rol = "admin_sede") =>
        \A i \in Range(resp.ids) :
            ~ ( /\ servicios[i].sede_id = NULL
                /\ servicios[i].franquicia_id # NULL
                /\ servicios[i].franquicia_id # franquicia_id_de_sede(resp.user.sede_id) )


\* C28: a listing of clients (listar_clientes, or the first page of
\* listar_todos) answered to an admin_sede or estilista of a site holds every
\* client whose sede_id is that site, whatever the franchise the site had
\* when the client was created and has now.
C28_OwnSiteClientsListed ==
    (/\ resp.op \in {"listar_clientes", "listar_todos"}
     /\ resp.user.rol \in {"admin_sede", "estilista"}
     /\ resp.user.sede_id \in SedeIds
     /\ (resp.op = "listar_todos" => resp.pagina = 1)) =>
        /\ resp.status = 200
        /\ \A i \in DOMAIN clientes :
              clientes[i].sede_id = resp.user.sede_id => i \in Range(resp.ids)

\* C29: for an admin_sede or estilista caller and an existing client,
\* obtener_cliente grants access exactly when the unfiltered listar_clientes
\* query of the same caller selects the client.
C29_ByIdAgreesWithList ==
    (/\ resp.op = "obtener_cliente"
     /\ resp.user.rol \in {"admin_sede", "estilista"}
     /\ resp.cliente_id \in DOMAIN clientes) =>
        ((resp.status = 200) <=>
            CumpleAnd(clientes[resp.cliente_id], QueryClientes(resp.user)))

====
